---------------------------- MODULE Spec2Model ----------------------------
(***************************************************************************)
(* Geometry / XML-assembly library of the mantidgeometry repository        *)
(* (SNS/SANS/utilities.py and the VULCAN builders of vulcan_geometry.py).  *)
(*                                                                         *)
(* The state is the XML tree under det.root (an ordered list of nodes),    *)
(* the value returned by the last library call, and a record of that call  *)
(* (its name and arguments).  One action per library function.  The driver *)
(* scripts (biosans_geometry.py, vulcan_geometry.py, basis_geometry.py,    *)
(* in5_generateIDF.py, generate_wing_detector.py) run on the same tree,    *)
(* one action per statement group, with their position in pc, their local  *)
(* variables in env and the files on disk in fs.                           *)
(*                                                                         *)
(* Numbers.  Lengths and angles are integers counting 1e-7 of the physical *)
(* unit (metre, degree); every input is an even count, so the halvings of  *)
(* the code (x / 2.0) are exact, as they are in binary floating point.     *)
(* Python's '{:.5f}'.format(v) writes v to the nearest multiple of 1e-5,   *)
(* i.e. of Res5 counts; the written number is kept as an integer counting  *)
(* 1e-5.  Binary rounding error (about 1e-16 relative) is far below one    *)
(* count and is visible only where a value sits exactly half way between   *)
(* two multiples of 1e-5: there the float lies on either side of the tie,  *)
(* so either neighbour can be written (Fmt5).                              *)
(***************************************************************************)
EXTENDS Integers, Sequences, FiniteSets, TLC

VARIABLES root,   \* det.root: the sequence of top-level nodes appended so far
          ret,    \* the list returned by the last panel_idlist call
          call,   \* the last library call: its name, arguments, Len(root) before
          pc,     \* the running script and the statement it is at
          env,    \* the local variables of the running script
          fs      \* the files on disk: path -> what the path holds

\* the state of a driver script, which a bare library call leaves alone
drv == <<pc, env, fs>>

vars == <<root, ret, call, pc, env, fs>>

-----------------------------------------------------------------------------
(* Bounds of the model *)

MaxElem == 4      \* largest num_elem / num_panels of a panel
MaxPacks == 2     \* largest iinfo['number_eightpacks']
MaxRoot == 1      \* a library call starts only while Len(root) < MaxRoot
MaxClock == 2     \* the latest time datetime.now() returns
MaxRenders == 2   \* the most to_string() calls of one run of the wing generator
MaxRuns == 2      \* the most runs of the wing generator
MaxCalls == 2     \* the most insert_location_from_logs calls on one element

-----------------------------------------------------------------------------
(* Python values *)

\* a list item that is an int or None
NoneV == [some |-> FALSE, v |-> 0]
IntV(n) == [some |-> TRUE, v |-> n]

\* an optional string argument (name_elem=None)
NoneS == [some |-> FALSE, s |-> ""]
StrS(s) == [some |-> TRUE, s |-> s]

\* f'{name_elem}': None is rendered as the text None
Fstr(o) == IF o.some THEN o.s ELSE "None"

\* f'{name_elem}{first_index+i}': the root name followed by the number
ElemName(o, idx) == <<Fstr(o), idx>>

Abs(n) == IF n < 0 THEN -n ELSE n

\* counts (1e-7) per written unit (1e-5) of '{:.5f}'
Res5 == 100

\* '{:.5f}'.format(num/den counts): the multiples of 1e-5 nearest to the
\* value; two of them exactly at a tie, one otherwise.  The written number
\* is returned in counts (a multiple of Res5).
Fmt5(num, den) ==
    LET d == den * Res5
        lo == num \div d
    IN  {r * Res5 : r \in {q \in {lo, lo + 1} : 2 * Abs(q * d - num) <= d}}

-----------------------------------------------------------------------------
(* make_filename *)

\* text is a sequence of one-character strings (and whole words that are
\* never taken apart, such as the instrument name)
DigitChar(d) == <<"0", "1", "2", "3", "4", "5", "6", "7", "8", "9">>[d + 1]

\* str(n) of a non-negative int: its decimal digits, no padding
RECURSIVE Str(_)
Str(n) == IF n < 10 THEN <<DigitChar(n)>> ELSE Str(n \div 10) \o <<DigitChar(n % 10)>>

\* getattr(date, period) for period in ('year', 'month', 'day')
Period(date, p) == date[p]

\* vfp[:-1]
ButLast(t) == SubSeq(t, 1, Len(t) - 1)

\* a plausible slip: the loop never stops early, so every period is written
RECURSIVE make_filename_no_break(_, _, _, _, _)
make_filename_no_break(p, vfp, vtp, valid_from, valid_to) ==
    IF p > 3 THEN <<vfp, vtp>>
    ELSE make_filename_no_break(p + 1,
                                vfp \o Str(Period(valid_from, p)) \o <<"-">>,
                                vtp \o Str(Period(valid_to, p)) \o <<"-">>,
                                valid_from, valid_to)

\* the for loop of make_filename from period p on: append the period to both
\* texts and stop as soon as the two texts differ
RECURSIVE make_filename_loop(_, _, _, _, _)
make_filename_loop(p, vfp, vtp, valid_from, valid_to) ==
    IF p > 3 THEN <<vfp, vtp>>
    ELSE LET f == vfp \o Str(Period(valid_from, p)) \o <<"-">>
             t == vtp \o Str(Period(valid_to, p)) \o <<"-">>
         IN  IF f # t THEN <<f, t>>
             ELSE make_filename_loop(p + 1, f, t, valid_from, valid_to)

\* valid_from and valid_to are given as parse_date reads them: <<year,
\* month, day>>
make_filename(instrument_name, valid_from, valid_to) ==
    LET v == make_filename_loop(1, <<>>, <<>>, valid_from, valid_to)
    IN  <<instrument_name, "_Definition_">> \o ButLast(v[1]) \o <<"_">>
        \o ButLast(v[2]) \o <<".xml">>

-----------------------------------------------------------------------------
(* XML nodes (lxml elements) and the MantidGeom passthroughs *)

Comment(text) == [tag |-> "comment", text |-> text]

Properties == [tag |-> "properties"]

\* le.SubElement(parent, 'type', name=...) with its children
TypeNode(name, kids) == [tag |-> "type", name |-> name, kids |-> kids]

\* le.SubElement(assembly, 'component', type=...) with its locations
ComponentNode(type, kids) == [tag |-> "component", type |-> type, kids |-> kids]

\* MantidGeom.addComment: one comment node appended to the root
AddComment(r, text) == Append(r, Comment(text))

\* MantidGeom.addLocation(parent, x, y, z): the location node it appends
AddLocation(x, y, z) == [tag |-> "location", x |-> x, y |-> y, z |-> z]

\* MantidGeom.addDetectorIds(name, idlist): the idlist node appended to the root
AddDetectorIds(r, name, idlist) ==
    Append(r, [tag |-> "idlist", idname |-> name, ids |-> idlist])

add_comment_section(r, comment, notes) ==
    LET r1 == AddComment(AddComment(r, ""), comment)
        r2 == IF notes.some THEN AddComment(r1, notes.s) ELSE r1
    IN  AddComment(r2, "")

-----------------------------------------------------------------------------
(* panel_idlist, add_double_panel_idlist *)

RECURSIVE panel_idlist_loop(_, _, _, _, _)
panel_idlist_loop(i, n, s, fourpack, gap) ==
    IF i >= n THEN <<>>
    ELSE <<IntV(s), IntV(s + fourpack - 1), NoneV>>
         \o panel_idlist_loop(i + 1, n, s + fourpack + gap, fourpack, gap)

\* a plausible slip: the end of a range is one past its last id
panel_idlist_inclusive_end(iinfo, start, gap) ==
    LET fourpack == 4 * iinfo.pixels_per_tube
    IN  panel_idlist_loop(0, iinfo.number_eightpacks, start, fourpack + 1, gap - 1)

panel_idlist(iinfo, start, gap) ==
    LET fourpack == 4 * iinfo.pixels_per_tube
    IN  panel_idlist_loop(0, iinfo.number_eightpacks, start, fourpack, gap)

\* a plausible slip: the back panel starts at the same id as the front panel
double_idlist_same_start(iinfo, start) ==
    LET fourpack == 4 * iinfo.pixels_per_tube
    IN  panel_idlist(iinfo, start, fourpack) \o panel_idlist(iinfo, start, fourpack)

\* the list add_double_panel_idlist hands to addDetectorIds
double_idlist(iinfo, start) ==
    LET fourpack == 4 * iinfo.pixels_per_tube
        front_list == panel_idlist(iinfo, start, fourpack)
        back_list == panel_idlist(iinfo, start + fourpack, fourpack)
    IN  front_list \o back_list

add_double_panel_idlist(r, iinfo, name, start) ==
    AddDetectorIds(add_comment_section(r, "LIST OF PIXEL IDs in DETECTOR", NoneS),
                   name, double_idlist(iinfo, start))

-----------------------------------------------------------------------------
(* Written numbers of a list of values *)

\* to_str(vv) / one '{:.5f}' per value: every list of written numbers the
\* values can produce
RECURSIVE Written(_)
Written(vals) ==
    IF vals = <<>> THEN {<<>>}
    ELSE {<<w>> \o rest : w \in Fmt5(Head(vals), 1), rest \in Written(Tail(vals))}

-----------------------------------------------------------------------------
(* add_flat_panel_type *)

\* a plausible slip: the panel is laid out in ascending x order
flat_x_ascending(num_elem, width, gap, i) ==
    LET effective_width == width + gap
        pack_start == (effective_width \div 2) * (num_elem - 1)
    IN  (i * effective_width) - pack_start

\* a plausible slip: the gap between elements is left out of the pitch
flat_x_without_gap(num_elem, width, gap, i) ==
    LET effective_width == width
        pack_start == (effective_width \div 2) * (num_elem - 1)
    IN  pack_start - (i * effective_width)

\* pack_start - (i * effective_width), before it is written
flat_x(num_elem, width, gap, i) ==
    LET effective_width == width + gap
        pack_start == (effective_width \div 2) * (num_elem - 1)
    IN  pack_start - (i * effective_width)

\* The written x of the num_elem locations.  In binary floating point
\* (n-1)*ew is exactly twice (ew/2)*(n-1), so the last value is exactly the
\* negative of the first and is written as its mirror image; the values in
\* between carry the rounding error of pack_start.
flat_xs(num_elem, width, gap) ==
    {ws \in Written([k \in 1..num_elem |-> flat_x(num_elem, width, gap, k - 1)]) :
        num_elem >= 1 => ws[num_elem] = -ws[1]}

flat_locations(num_elem, name_elem, first_index, xs) ==
    [k \in 1..num_elem |->
        [tag |-> "location",
         name |-> ElemName(name_elem, first_index + (k - 1)),
         x |-> xs[k]]]

add_flat_panel_type(r, num_elem, type_elem, name_elem, first_index, assemb_type, xs) ==
    Append(add_comment_section(r, "TYPE: FLAT PANEL", NoneS),
           TypeNode(assemb_type,
                    <<Properties,
                      ComponentNode(type_elem,
                          flat_locations(num_elem, name_elem, first_index, xs))>>))

-----------------------------------------------------------------------------
(* add_double_pack *)

\* a plausible slip: the slip shift is not applied to the second pack
double_pack_locations_no_slip_step(pack_type, separation, slip) ==
    LET pack_start_z == -(separation \div 2)
        pack_start_x == -(slip \div 2)
        prefix == <<"front", "back">>
    IN  [k \in 1..2 |->
            [tag |-> "location",
             name |-> [prefix |-> prefix[k], base |-> pack_type],
             x |-> pack_start_x,
             z |-> pack_start_z + separation * (k - 1)]]

double_pack_locations(pack_type, separation, slip) ==
    LET pack_start_z == -(separation \div 2)
        pack_start_x == -(slip \div 2)
        prefix == <<"front", "back">>
    IN  [k \in 1..2 |->
            [tag |-> "location",
             name |-> [prefix |-> prefix[k], base |-> pack_type],
             x |-> pack_start_x + slip * (k - 1),
             z |-> pack_start_z + separation * (k - 1)]]

add_double_pack(r, assembly_type, pack_type, separation, slip) ==
    Append(r, TypeNode(assembly_type,
                       <<Properties,
                         ComponentNode(pack_type,
                             double_pack_locations(pack_type, separation, slip))>>))

-----------------------------------------------------------------------------
(* add_double_flat_panel_type *)

double_flat_panel(iinfo) ==
    LET x == iinfo.fourpack_slip \div 2
        z == iinfo.fourpack_separation \div 2
    IN  TypeNode("double-flat-panel",
                 <<Properties,
                   ComponentNode("front-panel", <<AddLocation(x, 0, -z)>>),
                   ComponentNode("back-panel", <<AddLocation(-x, 0, z)>>)>>)

add_double_flat_panel_type(r, iinfo, xs) ==
    LET n == iinfo.number_eightpacks
        r1 == add_flat_panel_type(r, n, "fourpack", StrS(iinfo.bank_name), 1,
                                  iinfo.flat_panel_types.front, xs)
        r2 == add_flat_panel_type(r1, n, "fourpack", StrS(iinfo.bank_name), 1 + n,
                                  iinfo.flat_panel_types.back, xs)
        r3 == add_comment_section(r2, "TYPE: DOUBLE FLAT PANEL", NoneS)
    IN  Append(r3, double_flat_panel(iinfo))

-----------------------------------------------------------------------------
(* add_curved_panel_type *)

\* a plausible slip: the span is centred with num_elem - 1 instead of num_elem
theta_angle_off_centre(num_elem, dtheta, theta_0, i) ==
    (dtheta \div 2) * (2 * i + 1) - ((num_elem - 1) * dtheta) \div 2 + theta_0

\* theta_angles[i] = dtheta * (0.5 + i) - num_elem * dtheta / 2 + theta_0
theta_angle(num_elem, dtheta, theta_0, i) ==
    (dtheta \div 2) * (2 * i + 1) - (num_elem * dtheta) \div 2 + theta_0

theta_angles(num_elem, dtheta, theta_0) ==
    [k \in 1..num_elem |-> theta_angle(num_elem, dtheta, theta_0, k - 1)]

\* a plausible slip: every element is given the rotation of the first one
curved_rot_first(rot, k) == rot[1]

\* rot[i]: the written angle of element i
curved_rot(rot, k) == rot[k]

\* radius * sin(deg2rad(theta)) + transl and radius * cos(...) + transl are
\* kept as terms: the trigonometric value is not computed
Trig(fn, radius, theta, transl) ==
    [fn |-> fn, radius |-> radius, theta |-> theta, transl |-> transl]

curved_locations(num_elem, radius, dtheta, theta_0, transl, name_elem, first_index, rot, y) ==
    LET th == theta_angles(num_elem, dtheta, theta_0)
    IN  [k \in 1..num_elem |->
            [tag |-> "location",
             name |-> ElemName(name_elem, first_index + (k - 1)),
             x |-> Trig("sin", radius, th[k], transl[1]),
             y |-> y[k],
             z |-> Trig("cos", radius, th[k], transl[3]),
             rot |-> curved_rot(rot, k),
             axis_x |-> 0, axis_y |-> 1, axis_z |-> 0]]

add_curved_panel_type(r, num_elem, radius, dtheta, theta_0, transl, type_elem, name_elem, first_index, assemb_type, rot, y) ==
    Append(add_comment_section(r, "TYPE: CURVED PANEL", NoneS),
           TypeNode(assemb_type,
                    <<Properties,
                      ComponentNode(type_elem,
                          curved_locations(num_elem, radius, dtheta, theta_0, transl,
                                           name_elem, first_index, rot, y))>>))

-----------------------------------------------------------------------------
(* add_double_curved_panel_type *)

\* 180. / math.pi * fourpack_slip / (2 * r_eightpack) in counts of 1e-7
\* degree, with 180/pi taken as 57.29578 and the lengths in units of 1e-4 m
\* (the inputs are multiples of it), rounded down to 1e-7 degree
slip_angle(fourpack_slip, r_eightpack) ==
    LET n == 5729578 * (fourpack_slip \div 1000)
        d == (2 * r_eightpack) \div 1000
    IN  (n \div d) * 100 + ((n % d) * 100) \div d

\* a plausible slip: the back panel starts again at the first bank number
back_first_index_restart(first_bank_number, number_eightpacks) == first_bank_number

\* first_index of the back panel
back_first_index(first_bank_number, number_eightpacks) ==
    first_bank_number + number_eightpacks

\* kwargs['transl'] if to_origin is True, else the default of the callee
double_curved_transl(iinfo, to_origin) ==
    IF to_origin THEN <<0, 0, -(iinfo.bank_radius + iinfo.anchor_offset)>>
    ELSE <<0, 0, 0>>

\* w: the numbers as written for the front and the back panel
add_double_curved_panel_type(r, iinfo, first_bank_number, to_origin, comment, w) ==
    LET n == iinfo.number_eightpacks
        r_eightpack == iinfo.bank_radius + iinfo.anchor_offset
        delta_r == iinfo.fourpack_separation \div 2
        sa == slip_angle(iinfo.fourpack_slip, r_eightpack)
        transl == double_curved_transl(iinfo, to_origin)
        r1 == add_curved_panel_type(r, n, r_eightpack - delta_r,
                                    -iinfo.eightpack_angle, sa, transl, "fourpack",
                                    StrS(iinfo.bank_name), first_bank_number,
                                    iinfo.curved_panel_types.front, w.front_rot, w.y)
        front == r1[Len(r1)]
        r2 == add_curved_panel_type(r1, n, r_eightpack + delta_r,
                                    -iinfo.eightpack_angle, -sa, transl, "fourpack",
                                    StrS(iinfo.bank_name),
                                    back_first_index(first_bank_number, n),
                                    iinfo.curved_panel_types.back, w.back_rot, w.y)
        back == r2[Len(r2)]
        r3 == add_comment_section(r2, "TYPE: DOUBLE CURVED PANEL", comment)
    IN  Append(r3, TypeNode("double-curved-panel",
                            <<Properties,
                              ComponentNode(front.name, <<AddLocation(0, 0, 0)>>),
                              ComponentNode(back.name, <<AddLocation(0, 0, 0)>>)>>))

\* the numbers add_double_curved_panel_type can write for iinfo
double_curved_written(iinfo, to_origin) ==
    LET n == iinfo.number_eightpacks
        r_eightpack == iinfo.bank_radius + iinfo.anchor_offset
        sa == slip_angle(iinfo.fourpack_slip, r_eightpack)
        transl == double_curved_transl(iinfo, to_origin)
    IN  {[front_rot |-> fr, back_rot |-> br, y |-> y] :
            fr \in Written(theta_angles(n, -iinfo.eightpack_angle, sa)),
            br \in Written(theta_angles(n, -iinfo.eightpack_angle, -sa)),
            y \in Written([k \in 1..n |-> transl[2]])}

-----------------------------------------------------------------------------
(* vulcan_geometry.py: addEightPack, addBankPosition *)

INCH_TO_METRE == 254000
SEPARATION == (323 * INCH_TO_METRE) \div 1000
SLIP == (434 * INCH_TO_METRE) \div 1000
SLIP_PANEL == 3 * SLIP + (460 * INCH_TO_METRE) \div 1000

\* (z, slip) pairs of the two rows, in the order of zip(tube_z, x_offset)
eight_pack_rows(upsidedown) ==
    LET tube_z == <<-SEPARATION, SEPARATION>>
        x_offset == IF upsidedown
                    THEN <<-((5 * SLIP) \div 4), -((7 * SLIP) \div 4)>>
                    ELSE <<-((7 * SLIP) \div 4), -((5 * SLIP) \div 4)>>
    IN  [j \in 1..2 |-> [z |-> tube_z[j], slip |-> x_offset[j]]]

\* x + slip of the 8 tubes in emission order (i outer, j inner)
eight_pack_x(upsidedown) ==
    [t \in 1..8 |->
        LET i == (t - 1) \div 2
            j == ((t - 1) % 2) + 1
        IN  i * SLIP + eight_pack_rows(upsidedown)[j].slip]

eight_pack_z(upsidedown) ==
    [t \in 1..8 |-> eight_pack_rows(upsidedown)[((t - 1) % 2) + 1].z]

addEightPack(r, name, tube_type, upsidedown, xs, zs) ==
    Append(r, TypeNode(name,
                       <<Properties,
                         ComponentNode(tube_type,
                             [t \in 1..8 |->
                                 [tag |-> "location",
                                  name |-> [base |-> name, i |-> (t - 1) \div 2,
                                            j |-> (t - 1) % 2],
                                  x |-> xs[t], z |-> zs[t]]])>>))

\* SLIP_PANEL * position_index with position_index = i - 0.5*(num_panels-1)
bank_x(num_panels, i) == (SLIP_PANEL \div 2) * (2 * i - (num_panels - 1))

addBankPosition(r, bankname, componentname, num_panels) ==
    Append(r, TypeNode(bankname,
                       [k \in 1..num_panels |->
                           [tag |-> "component", type |-> componentname,
                            name |-> [base |-> "pack", i |-> k],
                            kids |-> <<[tag |-> "location",
                                        x |-> bank_x(num_panels, k - 1),
                                        y |-> 0, z |-> 0, rot_y |-> 0]>>]]))

-----------------------------------------------------------------------------
(* MantidGeom passthroughs used by the driver scripts *)

\* a MantidGeom call whose subtree no statement of the scripts looks into
\* (addSnsDefaults, addModerator, addSamplePosition, addMonitors, ...)
Helper(name) == [tag |-> "helper", call |-> name]

\* MantidGeom.addCylinderPixel(name, ...): a type that is a detector pixel
PixelType(name) == [tag |-> "type", name |-> name, is |-> "detector", kids |-> <<>>]

\* n located copies of a child type
Copies(n) == [k \in 1..n |-> [tag |-> "location", name |-> k]]

\* MantidGeom.addPixelatedTube(name, num_pixels, ..., type_name): a type of
\* num_pixels located pixels
PixelatedTube(name, num_pixels, type_name) ==
    TypeNode(name, <<ComponentNode(type_name, Copies(num_pixels))>>)

\* MantidGeom.addNPack(name, num_tubes, ..., type_name): a type of num_tubes
\* located tubes
NPack(name, num_tubes, type_name) ==
    TypeNode(name, <<ComponentNode(type_name, Copies(num_tubes))>>)

\* MantidGeom.addComponent(type_name, idlist): a component of the root that
\* takes its detector ids from the named idlist
AddComponent(type_name, idlist) ==
    [tag |-> "component", type |-> type_name, idlist |-> idlist, kids |-> <<>>]

\* MantidGeom.addLocation(parent, x, y, z, rot_y=...)
AddLocationRotY(x, y, z, rot_y) ==
    [tag |-> "location", x |-> x, y |-> y, z |-> z, rot_y |-> rot_y]

\* the path MantidGeom.writeGeom writes to before it renames
Temp(path) == path \o <<".tmp">>

\* MantidGeom.writeGeom(filename): the document is written to a temporary
\* path, which is renamed to filename once it is complete; a failure while
\* writing leaves filename as it was
writeGeom(files, filename, outcome) ==
    IF outcome = "ok"
    THEN [files EXCEPT ![Temp(filename)] = "absent", ![filename] = "complete"]
    ELSE [files EXCEPT ![Temp(filename)] = "partial"]

\* how a write can end: completely, or with an error part way
WriteOutcomes == {"ok", "error"}

\* a plausible slip: the script writes the text into the output path itself
write_document_in_place(files, path, outcome) ==
    [files EXCEPT ![path] = IF outcome = "ok" THEN "complete" ELSE "partial"]

\* det.writeGeom(path), the one statement of a script that touches its
\* output path
write_document(files, path, outcome) == writeGeom(files, path, outcome)

-----------------------------------------------------------------------------
(* utilities.py: add_basic_types and the double panel components *)

add_source_and_sample(r) ==
    LET r1 == add_comment_section(r, "COMPONENT and TYPE: SOURCE AND SAMPLE POSITION",
                                  NoneS)
    IN  r1 \o <<Helper("addModerator"), Helper("addSamplePosition")>>

add_pixel_type(r) ==
    Append(add_comment_section(r, "TYPE: PIXEL FOR STANDARD 256 PIXEL TUBE", NoneS),
           PixelType("pixel"))

add_tube_type(r, n_pixels) ==
    Append(add_comment_section(r, "TYPE: STANDARD 256 PIXEL TUBE", NoneS),
           PixelatedTube("tube", n_pixels, "pixel"))

add_fourpack_type(r) ==
    Append(add_comment_section(r, "TYPE: FOUR-PACK", NoneS),
           NPack("fourpack", 4, "tube"))

add_basic_types(r, iinfo) ==
    add_fourpack_type(add_tube_type(add_pixel_type(add_source_and_sample(r)),
                                    iinfo.pixels_per_tube))

\* location=None
NoLocation == [some |-> FALSE, v |-> <<>>]

\* the component is appended first; det.addLocation(comp, **list(location))
\* then raises TypeError for every location that is not None, before
\* addLocation is entered ('**' wants a mapping, it is given a list)
add_double_flat_panel_component(r, double_panel, idlist, name, location) ==
    LET r1 == add_comment_section(r, "COMPONENT: DOUBLE FLAT PANEL", NoneS)
        comp == [tag |-> "component", type |-> double_panel.name,
                 idlist |-> idlist, name |-> name, kids |-> <<>>]
    IN  [root |-> Append(r1, comp), raised |-> location.some]

add_double_curved_panel_component(r, double_panel, idlist, name, comment) ==
    LET r1 == add_comment_section(r, "COMPONENT: DOUBLE CURVED PANEL", comment)
        comp == [tag |-> "component", type |-> double_panel.name,
                 idlist |-> idlist, name |-> name, kids |-> <<>>]
    IN  Append(r1, comp)

-----------------------------------------------------------------------------
(* biosans_geometry.py *)

biosans_iinfo ==
    [valid_from |-> <<2019, 1, 1>>,
     valid_to |-> <<2100, 12, 31>>,
     instrument_name |-> "BIOSANS",
     flat_array |-> "detector1",
     flat_panel_types |-> [front |-> "front-panel", back |-> "back-panel"],
     bank_name |-> "bank",
     pixels_per_tube |-> 256,
     tube_separation |-> 110000,
     fourpack_separation |-> 82000,
     fourpack_slip |-> 55000,
     number_eightpacks |-> 24]

biosans_jinfo ==
    [curved_array |-> "wing_detector_arm",
     curved_panel_types |-> [front |-> "front-wing-panel", back |-> "back-wing-panel"],
     bank_name |-> "wing-bank",
     number_eightpacks |-> 20,
     bank_radius |-> 50000000,
     anchor_offset |-> 41000,
     eightpack_angle |-> 5041000]

\* iinfo.update(jinfo): the keys of jinfo replace or extend those of iinfo
DictUpdate(d, j) == j @@ d

\* a plausible slip: the tubes of one four-pack are counted, not the eight
\* of an eight-pack
biosans_n_pixels_per_fourpack(iinfo) == iinfo.number_eightpacks * 4 * 256

\* iinfo['number_eightpacks'] * 8 * 256
biosans_n_pixels(iinfo) == iinfo.number_eightpacks * 8 * 256

\* [n_flat_pixels, n_flat_pixels + n_curved_pixels - 1, 1] and
\* [0, n_flat_pixels - 1, 1]: first id, count, step 1
biosans_idlist(first, count) == <<IntV(first), IntV(first + count - 1), IntV(1)>>

-----------------------------------------------------------------------------
(* vulcan_geometry.py: the id blocks and the script *)

TUBE_PIXELS == 512
PIXELS_PER_EIGHTPACK == 8 * TUBE_PIXELS
PIXELS_PER_PANEL == 5000
PIXELS_PER_BANK == PIXELS_PER_PANEL * 20

\* rect=None
NoRect == [some |-> FALSE, v |-> ""]
Rect(v) == [some |-> TRUE, v |-> v]

\* a plausible slip: the idlist is given a name of its own
addEmptyComponent_ids_suffix(r, type_name, rect) ==
    LET component == AddComponent(type_name, type_name \o "_ids")
        location == IF rect.some
                    THEN [tag |-> "location", rect |-> rect.v]
                    ELSE AddLocationRotY(0, 0, 0, 0)
    IN  Append(r, [component EXCEPT !.kids = <<location>>])

\* type_name is reused as idlist name; the location comes from the surveyed
\* rectangle when there is one
addEmptyComponent(r, type_name, rect) ==
    LET component == AddComponent(type_name, type_name)
        location == IF rect.some
                    THEN [tag |-> "location", rect |-> rect.v]
                    ELSE AddLocationRotY(0, 0, 0, 0)
    IN  Append(r, [component EXCEPT !.kids = <<location>>])

\* a plausible slip: the panels are packed without the reserved extra ids
panel_offset_packed(bank_offset, i) == bank_offset + PIXELS_PER_EIGHTPACK * i

panel_offset(bank_offset, i) == bank_offset + PIXELS_PER_PANEL * i

RECURSIVE bank_ids_loop(_, _, _)
bank_ids_loop(i, num_panels, bank_offset) ==
    IF i >= num_panels THEN <<>>
    ELSE <<IntV(panel_offset(bank_offset, i)),
           IntV(panel_offset(bank_offset, i) + PIXELS_PER_EIGHTPACK - 1), NoneV>>
         \o bank_ids_loop(i + 1, num_panels, bank_offset)

addBankIds(r, bankname, bank_offset, num_panels) ==
    AddDetectorIds(r, bankname, bank_ids_loop(0, num_panels, bank_offset))

\* what readPositions can make of the survey file: the rectangles of the
\* three banks, or no rectangle when four points are out of tolerance
Surveys == {"survey_20210210", "survey_moved", "skewed"}

-----------------------------------------------------------------------------
(* ILL/IDF/in5_generateIDF.py *)

numberOfPixelsPerTube == 256
firstDetectorId == 1

\* the table of tube angles as it is written in the script, in 1e-6 degree
azimuthalAngle ==
    <<
      -11917500, -11545100, -11172700, -10800300, -10427900, -10055400, -9683000, -9310580,
      -8938160, -8565730, -8193310, -7820890, -7448460, -7076040, -6703620, -6331190,
      -5958770, -5586350, -5213930, -4841500, -4469080, -4096660, -3724230, -3351810,
      -2979390, -2606960, -2234540, -1862120, -1489690, -1117270, -744846, -372423,
      372423, 744847, 1117270, 1489690, 1862120, 2234540, 2606960, 2979390,
      3351810, 3724230, 4096660, 4469080, 4841500, 5213930, 5586350, 5958770,
      6331190, 6703620, 7076040, 7448460, 7820890, 8193310, 8565730, 8938160,
      9310580, 9683000, 10055400, 10427900, 10800300, 11172700, 11545100, 11917500,
      12662400, 13034800, 13407200, 13779700, 14152100, 14524500, 14896900, 15269400,
      15641800, 16014200, 16386600, 16759000, 17131500, 17503900, 17876300, 18248700,
      18621200, 18993600, 19366000, 19738400, 20110900, 20483300, 20855700, 21228100,
      21600500, 21973000, 22345400, 22717800, 23090200, 23462700, 23835100, 24207500,
      24952400, 25324800, 25697200, 26069600, 26442000, 26814500, 27186900, 27559300,
      27931700, 28304200, 28676600, 29049000, 29421400, 29793900, 30166300, 30538700,
      30911100, 31283600, 31656000, 32028400, 32400800, 32773200, 33145700, 33518100,
      33890500, 34262900, 34635400, 35007800, 35380200, 35752600, 36125100, 36497500,
      37242300, 37614700, 37987200, 38359600, 38732000, 39104400, 39476900, 39849300,
      40221700, 40594100, 40966600, 41339000, 41711400, 42083800, 42456200, 42828700,
      43201100, 43573500, 43945900, 44318400, 44690800, 45063200, 45435600, 45808100,
      46180500, 46552900, 46925300, 47297800, 47670200, 48042600, 48415000, 48787400,
      49532300, 49904700, 50277100, 50649600, 51022000, 51394400, 51766800, 52139300,
      52511700, 52884100, 53256500, 53628900, 54001400, 54373800, 54746200, 55118600,
      55491100, 55863500, 56235900, 56608300, 56980800, 57353200, 57725600, 58098000,
      58470400, 58842900, 59215300, 59587700, 59960100, 60332600, 60705000, 61077400,
      61822300, 62194700, 62567100, 62939500, 63312000, 63684400, 64056800, 64429200,
      64801700, 65174100, 65546500, 65918900, 66291300, 66663800, 67036200, 67408600,
      67781000, 68153500, 68525900, 68898300, 69270700, 69643200, 70015600, 70388000,
      70760400, 71132800, 71505300, 71877700, 72250100, 72622500, 72995000, 73367400,
      74112200, 74484600, 74857100, 75229500, 75601900, 75974300, 76346800, 76719200,
      77091600, 77464000, 77836500, 78208900, 78581300, 78953700, 79326200, 79698600,
      80071000, 80443400, 80815800, 81188300, 81560700, 81933100, 82305500, 82678000,
      83050400, 83422800, 83795200, 84167700, 84540100, 84912500, 85284900, 85657300,
      86402200, 86774600, 87147000, 87519500, 87891900, 88264300, 88636700, 89009200,
      89381600, 89754000, 90126400, 90498900, 90871300, 91243700, 91616100, 91988500,
      92361000, 92733400, 93105800, 93478200, 93850700, 94223100, 94595500, 94967900,
      95340400, 95712800, 96085200, 96457600, 96830000, 97202500, 97574900, 97947300,
      98692200, 99064600, 99437000, 99809400, 100182000, 100554000, 100927000, 101299000,
      101672000, 102044000, 102416000, 102789000, 103161000, 103534000, 103906000, 104279000,
      104651000, 105023000, 105396000, 105768000, 106141000, 106513000, 106885000, 107258000,
      107630000, 108003000, 108375000, 108748000, 109120000, 109492000, 109865000, 110237000,
      110982000, 111355000, 111727000, 112099000, 112472000, 112844000, 113217000, 113589000,
      113962000, 114334000, 114706000, 115079000, 115451000, 115824000, 116196000, 116568000,
      116941000, 117313000, 117686000, 118058000, 118431000, 118803000, 119175000, 119548000,
      119920000, 120293000, 120665000, 121038000, 121410000, 121782000, 122155000, 122527000,
      123272000, 123645000, 124017000, 124389000, 124762000, 125134000, 125507000, 125879000,
      126251000, 126624000, 126996000, 127369000, 127741000, 128114000, 128486000, 128858000,
      129231000, 129603000, 129976000, 130348000, 130721000, 131093000, 131465000, 131838000,
      132210000, 132583000, 132955000, 133328000, 133700000, 134072000, 134445000, 134817000
    >>

\* azimuthalAngle.reverse()
Reverse(seq) == [k \in 1..Len(seq) |-> seq[Len(seq) + 1 - k]]

numberOfTubes == Len(azimuthalAngle)
numberOfDetectors == numberOfPixelsPerTube * numberOfTubes

\* tubeHeight / float(numberOfPixelsPerTube - removedPixelsTop -
\* removedPixelsBottom) = 2.95 / (256 - 8 - 7) metre, kept as a fraction of
\* 0.01 m
tubePixelStep == [num |-> 295, den |-> numberOfPixelsPerTube - 8 - 7]

\* lines 43-48: the pixel is a cylinder along y from -tubePixelStep/2 to
\* +tubePixelStep/2 about its location
in5_pixel ==
    [pixel_height |-> tubePixelStep,
     base_y |-> [num |-> -tubePixelStep.num, den |-> 2 * tubePixelStep.den]]
    @@ PixelType("standard_pixel")

\* np.linspace(-totalTubeHeight/2., totalTubeHeight/2., numberOfPixelsPerTube)
\* with totalTubeHeight = 2.95 / (256 - 8 - 7) * 256: position k (from 0) is
\* 2.95 * 256 * (2k - 255) / (241 * 510) metre, kept as a fraction of 0.01 m
in5_pixelPositions ==
    [k \in 1..numberOfPixelsPerTube |->
        [num |-> 295 * numberOfPixelsPerTube * (2 * (k - 1) - (numberOfPixelsPerTube - 1)),
         den |-> (numberOfPixelsPerTube - 8 - 7) * 2 * (numberOfPixelsPerTube - 1)]]

\* lines 50-62: the bank of tubes, one location per angle of the reversed table
in5_bank ==
    TypeNode("bank_uniq",
             <<ComponentNode("standard_tube",
                   [k \in 1..numberOfTubes |->
                       [tag |-> "location", r |-> 4,
                        t |-> Reverse(azimuthalAngle)[k],
                        rot |-> Reverse(azimuthalAngle)[k],
                        axis_x |-> 0, axis_y |-> 1, axis_z |-> 0,
                        name |-> <<"tube_", k>>]])>>)

\* lines 63-67: the tube, one location per pixel position
in5_tube ==
    TypeNode("standard_tube",
             <<ComponentNode("standard_pixel",
                   [k \in 1..numberOfPixelsPerTube |->
                       [tag |-> "location", y |-> in5_pixelPositions[k]]])>>)

\* a plausible slip: the ids are counted from 0
in5_idlist_from_zero == <<IntV(0), IntV(98303), NoneV>>

\* line 72: the range is written out in the script
in5_idlist == <<IntV(1), IntV(98304), NoneV>>

-----------------------------------------------------------------------------
(* HFIR/BIOSANS/generate_wing_detector.py *)

n_tubes == 20 * 8
n_pixels_tube == 256
n_total_pixels == n_tubes * n_pixels_tube

\* np.degrees(np.arcsin(0.0055 / 2.0 / 1.13)) = 0.13943677 degree, in
\* counts of 1e-7 degree
tube_step_angle_degrees == 1394368

\* np.linspace(a, b, n): a + k * step with step = (b - a) / (n - 1), which
\* divides evenly for the values used
Linspace(a, b, n) == [k \in 1..n |-> a + (k - 1) * ((b - a) \div (n - 1))]

\* a plausible slip: the last id is one past the last pixel
wing_last_id_one_past(first_id) == first_id + n_total_pixels

wing_last_id(first_id) == first_id + n_total_pixels - 1

\* the dictionary the template is filled from; now is datetime.now() at
\* the time the module is loaded
wing_values(now) ==
    [last_modified |-> now,
     first_id |-> 2000000,
     last_id |-> wing_last_id(2000000),
     radius |-> 11300000,
     tube_pos_angle |-> [x \in 1..n_tubes |-> -tube_step_angle_degrees * (x - 1)],
     pixel_positions |-> Linspace(-5482500, 5482500, 256)]

\* a plausible slip: the time stamp is taken anew at every rendering
to_string_stamped(values, now) ==
    <<[at |-> "last-modified", v |-> now],
      [at |-> "idlist", start |-> values.first_id, end |-> values.last_id]>>
    \o [k \in 1..Len(values.tube_pos_angle) |->
            [at |-> "wing_tube", r |-> values.radius,
             t |-> values.tube_pos_angle[k], counter0 |-> k - 1]]
    \o [k \in 1..Len(values.pixel_positions) |->
            [at |-> "wing_pixel", y |-> values.pixel_positions[k], counter0 |-> k - 1]]

\* Template(template).render(Context(values)): the places of the template
\* that are filled in, in the order of the text; now is the time of the
\* call, which the code does not read
to_string(values, now) ==
    <<[at |-> "last-modified", v |-> values.last_modified],
      [at |-> "idlist", start |-> values.first_id, end |-> values.last_id]>>
    \o [k \in 1..Len(values.tube_pos_angle) |->
            [at |-> "wing_tube", r |-> values.radius,
             t |-> values.tube_pos_angle[k], counter0 |-> k - 1]]
    \o [k \in 1..Len(values.pixel_positions) |->
            [at |-> "wing_pixel", y |-> values.pixel_positions[k], counter0 |-> k - 1]]

-----------------------------------------------------------------------------
(* basis_geometry.py *)

nexus_file_111 == <<"/SNS/BSS/IPTS-5908/0/32264/NeXus/BSS_32264_event.nxs">>
nexus_file_311 == <<"/SNS/BSS/IPTS-5908/0/40473/NeXus/BSS_40473_event.nxs">>

\* the keys of the reflections dictionary in the order they are written,
\* which is the order the main loop takes them in
reflection_keys == <<"generic", "111", "333", "311">>

reflections(key) ==
    [nexus |-> IF key = "311" THEN nexus_file_311 ELSE nexus_file_111,
     efixed |-> key # "generic"]

n_inelastic_banks == 4
ELASTIC_BANK_START == 5
ELASTIC_BANK_END == 13
ELASTIC_DETECTORID_START == 16384
ELASTIC_TUBE_NPIXELS == 128

INELASTIC_TUBES_PER_BANK == 64
INELASTIC_TUBES_NGHOST == 8
INELASTIC_TUBE_NPIXEL == 64
INELASTIC_TUBE_DISTANCE_TO_SAMPLE == 24436500
INELASTIC_TUBE_Y0 == INCH_TO_METRE
INELASTIC_TUBE_LENGTH == INELASTIC_TUBE_DISTANCE_TO_SAMPLE

\* the angles of the first and the last tube of a bank, in 1e-4 degree
INELASTIC_BANK_THETA_START == 115018
INELASTIC_BANK_THETA_END == 1611990
INELASTIC_BANK_THETA_SPREAD == INELASTIC_BANK_THETA_END - INELASTIC_BANK_THETA_START

\* the two tables are keyed 0 .. 3
Y_OFFSET ==
    (0 :> INELASTIC_TUBE_Y0)
    @@ (1 :> -INELASTIC_TUBE_Y0 - INELASTIC_TUBE_LENGTH)
    @@ (2 :> INELASTIC_TUBE_Y0)
    @@ (3 :> -INELASTIC_TUBE_Y0 - INELASTIC_TUBE_LENGTH)

\* math.pi is 180 degrees
THETA_OFFSET ==
    (0 :> INELASTIC_BANK_THETA_START)
    @@ (1 :> INELASTIC_BANK_THETA_START)
    @@ (2 :> 1800000 + INELASTIC_BANK_THETA_START)
    @@ (3 :> 1800000 + INELASTIC_BANK_THETA_START)

\* pixels_physical_xyz(bank_id): THETA_OFFSET[bank_id] raises KeyError for a
\* bank_id that is no key of the table, in the first round of the loop.
\* Angles are counted in 1/ntubes of 1e-4 degree and y in
\* 1/INELASTIC_TUBE_NPIXEL of 1e-7 m, which makes delta_theta and
\* pixel_length whole numbers.
pixels_physical_xyz(bank_id) ==
    LET ntubes == INELASTIC_TUBES_PER_BANK - INELASTIC_TUBES_NGHOST
        theta_tube(itube) == THETA_OFFSET[bank_id] * ntubes
                             + itube * INELASTIC_BANK_THETA_SPREAD
        xbank == [t \in 1..ntubes |->
                     [p \in 1..INELASTIC_TUBE_NPIXEL |->
                         Trig("sin", INELASTIC_TUBE_DISTANCE_TO_SAMPLE,
                              theta_tube(t - 1), 0)]]
        zbank == [t \in 1..ntubes |->
                     [p \in 1..INELASTIC_TUBE_NPIXEL |->
                         Trig("cos", INELASTIC_TUBE_DISTANCE_TO_SAMPLE,
                              theta_tube(t - 1), 0)]]
        ybank == [t \in 1..ntubes |->
                     [p \in 1..INELASTIC_TUBE_NPIXEL |->
                         Y_OFFSET[bank_id] * INELASTIC_TUBE_NPIXEL
                         + (p - 1) * INELASTIC_TUBE_LENGTH]]
    IN  IF bank_id \in DOMAIN THETA_OFFSET
        THEN [raised |-> "", value |-> <<xbank, ybank, zbank>>]
        ELSE [raised |-> "KeyError", value |-> <<>>]

\* a plausible slip: the test for the file is left out
nexus_missing_unchecked(files, path) == FALSE

\* not os.path.exists(refl['nexus'])
nexus_missing(files, path) == files[path] = "absent"

\* '{} not found. Not creating geometry'.format(refl['nexus'])
not_found_message(path) == path \o <<" not found. Not creating geometry">>

\* '{}_Definition_Si{}.xml'.format(inst_name, reflection_key)
basis_xml_outfile(key) == <<"BASIS", "_Definition_Si", key, ".xml">>

\* lines 199-204: the positions of the diffraction banks, in 1e-7 m
detector_z == <<-21474825, -17045940, -11083730, -4135165, 3181000, 10218315, 16330115, 20993535, 23769990>>
detector_x == <<11649855, 17484015, 21755410, 24085940, 24229330, 22163780, 18142005, 12478670, 5687435>>
detector_y == <<-18070, -18010, -11845, -6885, -13145, -16260, -13970, 3465, -1125>>

\* list[k] of Python: k counts from 0, a negative k counts from the end, and
\* any other k raises IndexError
PyItem(list, k) ==
    IF k \in 0..(Len(list) - 1) THEN [raised |-> "", v |-> list[k + 1]]
    ELSE IF k \in (-Len(list))..(-1) THEN [raised |-> "", v |-> list[Len(list) + k + 1]]
    ELSE [raised |-> "IndexError", v |-> 0]

\* lines 206-217: the component of diffraction bank i and its detector at
\* the position read with k = i - ELASTIC_BANK_START
elastic_detector(i) ==
    LET k == i - ELASTIC_BANK_START
    IN  [tag |-> "helper", call |-> "addDetector", bank |-> i, k |-> k,
         x |-> PyItem(detector_x, k), y |-> PyItem(detector_y, k),
         z |-> PyItem(detector_z, k)]

\* a plausible slip: the last id of a bank is the first id of the next
RECURSIVE basis_elastic_idlist_shared_end(_)
basis_elastic_idlist_shared_end(i) ==
    IF i > ELASTIC_BANK_END THEN <<>>
    ELSE <<IntV(ELASTIC_DETECTORID_START + ELASTIC_TUBE_NPIXELS * (i - ELASTIC_BANK_START)),
           IntV(ELASTIC_DETECTORID_START + ELASTIC_TUBE_NPIXELS * (i - ELASTIC_BANK_START)
                + ELASTIC_TUBE_NPIXELS),
           NoneV>>
         \o basis_elastic_idlist_shared_end(i + 1)

\* lines 206-224: first id, last id, None for each diffraction bank
RECURSIVE basis_elastic_idlist(_)
basis_elastic_idlist(i) ==
    IF i > ELASTIC_BANK_END THEN <<>>
    ELSE <<IntV(ELASTIC_DETECTORID_START + ELASTIC_TUBE_NPIXELS * (i - ELASTIC_BANK_START)),
           IntV(ELASTIC_DETECTORID_START + ELASTIC_TUBE_NPIXELS * (i - ELASTIC_BANK_START)
                + ELASTIC_TUBE_NPIXELS - 1),
           NoneV>>
         \o basis_elastic_idlist(i + 1)

\* lines 149-253: the document of one reflection
basis_document(key) ==
    <<Helper("addSnsDefaults"), Comment("SOURCE AND SAMPLE POSITION"),
      Helper("addModerator"), Helper("addSamplePosition"),
      Comment("MONITORS"), Helper("addMonitors"),
      Comment("INELASTIC DECTECTORS"),
      [tag |-> "component", type |-> "silicon", kids |-> <<>>],
      TypeNode("silicon",
               [i \in 1..n_inelastic_banks |->
                   [tag |-> "component", type |-> <<"bank", i>>,
                    idlist |-> <<"bank", i>>, kids |-> <<>>]])>>
    \o [i \in 1..(2 * n_inelastic_banks) |->
            IF i % 2 = 1
            THEN [tag |-> "helper", call |-> "addDetectorPixels",
                  bank |-> (i + 1) \div 2, output_efixed |-> reflections(key).efixed]
            ELSE [tag |-> "helper", call |-> "addDetectorPixelsIdList",
                  bank |-> i \div 2]]
    \o <<AddComponent("elastic", "elastic"),
         TypeNode("elastic",
                  [k \in 1..(ELASTIC_BANK_END - ELASTIC_BANK_START + 1) |->
                      [tag |-> "component",
                       type |-> <<"bank", ELASTIC_BANK_START + k - 1>>,
                       kids |-> <<>>]])>>
    \o [k \in 1..(ELASTIC_BANK_END - ELASTIC_BANK_START + 1) |->
            elastic_detector(ELASTIC_BANK_START + k - 1)]
    \o <<Comment("ELASTIC TUBE (90 degrees)"),
         PixelatedTube("tube-elastic", ELASTIC_TUBE_NPIXELS, "pixel-elastic-tube")>>
    \o AddDetectorIds(<<>>, "elastic", basis_elastic_idlist(ELASTIC_BANK_START))
    \o <<Comment("PIXEL FOR DIFFRACTION TUBES"), PixelType("pixel-elastic-tube"),
         Comment("PIXEL FOR INELASTIC TUBES"), PixelType("pixel"),
         Comment("MONITOR SHAPE"), Comment("FIXME: Do something real here."),
         Helper("addDummyMonitor"),
         Comment("MONITOR IDs"), Helper("addMonitorIds")>>

-----------------------------------------------------------------------------
(* insert_location_from_logs *)

\* an argument that is a str or a list of str
Scalar(s) == [is_list |-> FALSE, s |-> s, v |-> <<>>]
List(seq) == [is_list |-> TRUE, s |-> "", v |-> seq]

\* log_key if isinstance(log_key, list) else [log_key]
AsList(arg) == IF arg.is_list THEN arg.v ELSE <<arg.s>>

\* element.find('location'): the index of the first location child, 0 for None
FindLocation(element) ==
    IF \E k \in DOMAIN element.kids : element.kids[k].tag = "location"
    THEN CHOOSE k \in DOMAIN element.kids :
             /\ element.kids[k].tag = "location"
             /\ \A j \in 1..(k - 1) : element.kids[j].tag # "location"
    ELSE 0

Logfile(id, eq) == [tag |-> "logfile", id |-> id, eq |-> eq]
Parameter(name, kids) == [tag |-> "parameter", name |-> name, kids |-> kids]

\* the loop from round i on: coord_names[i] is read before the parameter is
\* appended and equations[i] after it, and either raises IndexError when the
\* list is too short
RECURSIVE logs_loop(_, _, _, _, _)
logs_loop(loc, i, log_keys, coord_names, equations) ==
    IF i > Len(log_keys) THEN [loc |-> loc, raised |-> ""]
    ELSE IF i > Len(coord_names) THEN [loc |-> loc, raised |-> "IndexError"]
    ELSE IF i > Len(equations)
    THEN [loc |-> [loc EXCEPT !.kids = Append(@, Parameter(coord_names[i], <<>>))],
          raised |-> "IndexError"]
    ELSE logs_loop([loc EXCEPT !.kids =
                       Append(@, Parameter(coord_names[i],
                                           <<Logfile(log_keys[i], equations[i])>>))],
                   i + 1, log_keys, coord_names, equations)

insert_location_from_logs(element, log_key, coord_name, equation) ==
    LET at == FindLocation(element)
        with_loc == IF at = 0
                    THEN [element EXCEPT !.kids =
                             Append(@, [tag |-> "location", kids |-> <<>>])]
                    ELSE element
        k == IF at = 0 THEN Len(with_loc.kids) ELSE at
        res == logs_loop(with_loc.kids[k], 1, AsList(log_key), AsList(coord_name),
                         AsList(equation))
    IN  [element |-> [with_loc EXCEPT !.kids[k] = res.loc], raised |-> res.raised]

-----------------------------------------------------------------------------
(* Inputs *)

\* the panel type names and slip of an instrument
Layouts ==
    {[fourpack_slip |-> 0,
      flat_panel_types |-> [front |-> "front-panel", back |-> "back-panel"]],
     [fourpack_slip |-> 55000,
      flat_panel_types |-> [front |-> "front-flat", back |-> "back-flat"]]}

\* the keys of iinfo the modelled functions read
IInfos ==
    {[pixels_per_tube |-> ppt,
      number_eightpacks |-> n,
      tube_separation |-> 110000,
      fourpack_separation |-> 82000,
      fourpack_slip |-> lay.fourpack_slip,
      bank_name |-> "bank",
      flat_panel_types |-> lay.flat_panel_types] :
        ppt \in {1, 256}, n \in 0..MaxPacks, lay \in Layouts}

Starts == {-3, 0, 7}
IdGaps(iinfo) == {0, 3, 4 * iinfo.pixels_per_tube}
Widths == {100, 82000, 82100}
Gaps == {0, 110000}
Separations == {300, 82000}
Slips == {0, 200, 55000}
Namings == {[name_elem |-> NoneS, first_index |-> 1],
            [name_elem |-> StrS("bank"), first_index |-> 5]}
Radii == {50041000}
DThetas == {-5041000, 100}
Theta0s == {0, 50, 314868}
Transls == {<<0, 0, 0>>, <<0, 0, -50041000>>}

\* the bank_id argument of pixels_physical_xyz: the values the script
\* passes (0 .. 3) and those the docstring lists (1 .. 4)
BankIds == 0..4

\* the elements insert_location_from_logs is called on: without a child,
\* with an empty location, with a location after another child
Elements ==
    {[tag |-> "component", type |-> "detector1", kids |-> <<>>],
     [tag |-> "component", type |-> "detector1",
      kids |-> <<[tag |-> "location", kids |-> <<>>]>>],
     [tag |-> "component", type |-> "detector1",
      kids |-> <<[tag |-> "properties", kids |-> <<>>],
                 [tag |-> "location",
                  kids |-> <<Parameter("y", <<Logfile("detectorY", "value")>>)>>]>>]}

\* (log_key, coord_name, equation): the defaults, a str each, a list each,
\* and lists with a default or a shorter list beside them
LogArgs ==
    {<<Scalar("detectorZ"), Scalar("z"), Scalar("0.001*value")>>,
     <<Scalar("detectorX"), Scalar("x"), Scalar("-0.001*value")>>,
     <<List(<<"detectorZ">>), Scalar("z"), List(<<"0.001*value">>)>>,
     <<List(<<"detectorX", "detectorZ">>), List(<<"x", "z">>),
       List(<<"-0.001*value", "0.001*value">>)>>,
     <<List(<<"detectorX", "detectorZ">>), List(<<"x", "z", "y">>),
       List(<<"-0.001*value", "0.001*value">>)>>,
     <<List(<<>>), List(<<>>), List(<<>>)>>,
     <<List(<<"detectorX", "detectorZ">>), List(<<"x", "z">>),
       Scalar("0.001*value")>>,
     <<List(<<"detectorX", "detectorZ">>), Scalar("z"),
       List(<<"-0.001*value", "0.001*value">>)>>}

\* the location argument of add_double_flat_panel_component: None or a
\* position vector
Locations == {NoLocation,
              [some |-> TRUE, v |-> <<0, 0, 0>>],
              [some |-> TRUE, v |-> <<0, 0, -50041000>>]}

\* the keys of iinfo that add_double_curved_panel_type reads
CurvedLayouts ==
    {[fourpack_slip |-> 55000,
      curved_panel_types |-> [front |-> "front-wing-panel", back |-> "back-wing-panel"]],
     [fourpack_slip |-> 0,
      curved_panel_types |-> [front |-> "front-curved", back |-> "back-curved"]]}

CurvedInfos ==
    {[number_eightpacks |-> n,
      fourpack_separation |-> 82000,
      fourpack_slip |-> lay.fourpack_slip,
      bank_name |-> "wing-bank",
      bank_radius |-> 50000000,
      anchor_offset |-> 41000,
      eightpack_angle |-> 5041000,
      curved_panel_types |-> lay.curved_panel_types] :
        n \in 0..MaxPacks, lay \in CurvedLayouts}

\* first_bank_number, to_origin, comment
CurvedOptions ==
    {[first_bank_number |-> 1, to_origin |-> TRUE, comment |-> NoneS],
     [first_bank_number |-> 5, to_origin |-> FALSE, comment |-> StrS("wing")]}

\* dates as parse_date gives them: <<year, month, day>>
Dates == {<<y, m, d>> : y \in {1, 11, 2019, 2100}, m \in {1, 11, 12}, d \in {1, 11, 31}}

-----------------------------------------------------------------------------
(* The state machine: a script calling the library on one document *)

Init ==
    /\ root = <<>>
    /\ ret = <<>>
    /\ call = [op |-> "init", before |-> 0]
    /\ pc = [script |-> "library", at |-> "call"]
    /\ env = <<>>
    /\ fs = <<>>

CanCall == Len(root) < MaxRoot

PanelIdlistCall ==
    \E iinfo \in IInfos, start \in Starts :
      \E gap \in IdGaps(iinfo) :
        /\ CanCall
        /\ UNCHANGED drv
        /\ ret' = panel_idlist(iinfo, start, gap)
        /\ call' = [op |-> "panel_idlist", before |-> Len(root),
                    iinfo |-> iinfo, start |-> start, gap |-> gap]
        /\ UNCHANGED root

AddDoublePanelIdlistCall ==
    \E iinfo \in IInfos, start \in Starts, name \in {"flat_panel_ids"} :
        /\ CanCall
        /\ UNCHANGED drv
        /\ root' = add_double_panel_idlist(root, iinfo, name, start)
        /\ ret' = <<>>
        /\ call' = [op |-> "add_double_panel_idlist", before |-> Len(root),
                    iinfo |-> iinfo, start |-> start, name |-> name]

AddFlatPanelTypeCall ==
    \E num_elem \in 1..MaxElem, width \in Widths, gap \in Gaps, nm \in Namings :
      \E xs \in flat_xs(num_elem, width, gap),
         name_elem \in {nm.name_elem}, first_index \in {nm.first_index} :
        /\ CanCall
        /\ UNCHANGED drv
        /\ root' = add_flat_panel_type(root, num_elem, "fourpack", name_elem,
                                       first_index, "panel", xs)
        /\ ret' = <<>>
        /\ call' = [op |-> "add_flat_panel_type", before |-> Len(root),
                    num_elem |-> num_elem, width |-> width, gap |-> gap,
                    type_elem |-> "fourpack", name_elem |-> name_elem,
                    first_index |-> first_index, assemb_type |-> "panel"]

AddDoublePackCall ==
    \E separation \in Separations, slip \in Slips :
        /\ CanCall
        /\ UNCHANGED drv
        /\ root' = add_double_pack(root, "eightpack", "fourpack", separation, slip)
        /\ ret' = <<>>
        /\ call' = [op |-> "add_double_pack", before |-> Len(root),
                    assembly_type |-> "eightpack", pack_type |-> "fourpack",
                    separation |-> separation, slip |-> slip]

AddDoubleFlatPanelTypeCall ==
    \E iinfo \in IInfos :
      \E xs \in flat_xs(iinfo.number_eightpacks, 3 * iinfo.tube_separation,
                        iinfo.tube_separation) :
        /\ CanCall
        /\ UNCHANGED drv
        /\ root' = add_double_flat_panel_type(root, iinfo, xs)
        /\ ret' = <<>>
        /\ call' = [op |-> "add_double_flat_panel_type", before |-> Len(root),
                    iinfo |-> iinfo]

AddCurvedPanelTypeCall ==
    \E num_elem \in 1..MaxElem, radius \in Radii, dtheta \in DThetas,
       theta_0 \in Theta0s, transl \in Transls, nm \in Namings :
      \E rot \in Written(theta_angles(num_elem, dtheta, theta_0)),
         y \in Written([k \in 1..num_elem |-> transl[2]]),
         name_elem \in {nm.name_elem}, first_index \in {nm.first_index} :
        /\ CanCall
        /\ UNCHANGED drv
        /\ root' = add_curved_panel_type(root, num_elem, radius, dtheta, theta_0,
                                         transl, "fourpack", name_elem, first_index,
                                         "panel", rot, y)
        /\ ret' = <<>>
        /\ call' = [op |-> "add_curved_panel_type", before |-> Len(root),
                    num_elem |-> num_elem, radius |-> radius, dtheta |-> dtheta,
                    theta_0 |-> theta_0, transl |-> transl,
                    type_elem |-> "fourpack", name_elem |-> name_elem,
                    first_index |-> first_index, assemb_type |-> "panel"]

AddDoubleCurvedPanelTypeCall ==
    \E iinfo \in CurvedInfos, opt \in CurvedOptions :
      \E w \in double_curved_written(iinfo, opt.to_origin) :
        /\ CanCall
        /\ UNCHANGED drv
        /\ root' = add_double_curved_panel_type(root, iinfo, opt.first_bank_number,
                                                opt.to_origin, opt.comment, w)
        /\ ret' = <<>>
        /\ call' = [op |-> "add_double_curved_panel_type", before |-> Len(root),
                    iinfo |-> iinfo, first_bank_number |-> opt.first_bank_number,
                    to_origin |-> opt.to_origin]

AddDoubleFlatPanelComponentCall ==
    \E location \in Locations :
        LET double_panel == TypeNode("double-flat-panel", <<>>)
            res == add_double_flat_panel_component(root, double_panel,
                       "flat_panel_ids", "detector1", location)
        IN  /\ CanCall
            /\ UNCHANGED drv
            /\ root' = res.root
            /\ ret' = <<>>
            /\ call' = [op |-> "add_double_flat_panel_component",
                        before |-> Len(root), double_panel |-> double_panel,
                        idlist |-> "flat_panel_ids", name |-> "detector1",
                        location |-> location, raised |-> res.raised]

\* pixels_physical_xyz reads no state and changes none: its calls are taken
\* from the initial state
PixelsPhysicalXyzCall ==
    \E bank_id \in BankIds :
        /\ call.op = "init"
        /\ UNCHANGED <<root, drv>>
        /\ ret' = pixels_physical_xyz(bank_id).value
        /\ call' = [op |-> "pixels_physical_xyz", before |-> Len(root),
                    bank_id |-> bank_id,
                    raised |-> pixels_physical_xyz(bank_id).raised]

AddEightPackCall ==
    \E upsidedown \in BOOLEAN :
      \E xs \in Written(eight_pack_x(upsidedown)),
         zs \in Written(eight_pack_z(upsidedown)) :
        /\ CanCall
        /\ UNCHANGED drv
        /\ root' = addEightPack(root, "eightpack", "tube", upsidedown, xs, zs)
        /\ ret' = <<>>
        /\ call' = [op |-> "addEightPack", before |-> Len(root),
                    name |-> "eightpack", tube_type |-> "tube",
                    upsidedown |-> upsidedown]

AddBankPositionCall ==
    \E num_panels \in 1..MaxElem :
        /\ CanCall
        /\ UNCHANGED drv
        /\ root' = addBankPosition(root, "bank1", "eightpack", num_panels)
        /\ ret' = <<>>
        /\ call' = [op |-> "addBankPosition", before |-> Len(root),
                    bankname |-> "bank1", componentname |-> "eightpack",
                    num_panels |-> num_panels]

Next ==
    \/ PanelIdlistCall
    \/ AddDoublePanelIdlistCall
    \/ AddFlatPanelTypeCall
    \/ AddDoublePackCall
    \/ AddDoubleFlatPanelTypeCall
    \/ AddCurvedPanelTypeCall
    \/ AddDoubleCurvedPanelTypeCall
    \/ AddDoubleFlatPanelComponentCall
    \/ PixelsPhysicalXyzCall
    \/ AddEightPackCall
    \/ AddBankPositionCall

Spec == Init /\ [][Next]_vars

-----------------------------------------------------------------------------
(* A script that only names its output file *)

MakeFilenameCall ==
    \E instrument_name \in {"BIOSANS"}, valid_from \in Dates, valid_to \in Dates :
        /\ call.op = "init"
        /\ ret' = make_filename(instrument_name, valid_from, valid_to)
        /\ call' = [op |-> "make_filename", before |-> Len(root),
                    instrument_name |-> instrument_name,
                    valid_from |-> valid_from, valid_to |-> valid_to]
        /\ UNCHANGED <<root, pc, env, fs>>

FilenameNext == MakeFilenameCall

FilenameSpec == Init /\ [][FilenameNext]_vars

-----------------------------------------------------------------------------
(* Calls of insert_location_from_logs on one element, which is root[1] *)

LogsInit ==
    /\ root \in {<<e>> : e \in Elements}
    /\ ret = <<>>
    /\ call = [op |-> "init", before |-> 0, calls |-> 0]
    /\ pc = [script |-> "library", at |-> "call"]
    /\ env = <<>>
    /\ fs = <<>>

InsertLocationFromLogsCall ==
    \E args \in LogArgs :
        LET res == insert_location_from_logs(root[1], args[1], args[2], args[3])
        IN  /\ call.calls < MaxCalls
            /\ root' = <<res.element>>
            /\ call' = [op |-> "insert_location_from_logs", before |-> 0,
                        calls |-> call.calls + 1, element |-> root[1],
                        log_key |-> args[1], coord_name |-> args[2],
                        equation |-> args[3], raised |-> res.raised]
            /\ UNCHANGED <<ret, pc, env, fs>>

LogsNext == InsertLocationFromLogsCall

LogsSpec == LogsInit /\ [][LogsNext]_vars

-----------------------------------------------------------------------------
(* The files of a run *)

BiosansOut == make_filename("BIOSANS", <<2019, 1, 1>>, <<2100, 12, 31>>)

\* inst_name + "_Definition.xml"
VulcanOut == <<"VULCAN", "_Definition.xml">>

\* CSV_FILE
CsvFile == <<"SNS/VULCAN/VULCAN_geom_20210210.csv">>

\* "./ILL/IDF/" + instrumentName + "_Definition.xml"
In5Out == <<"./ILL/IDF/", "IN5", "_Definition.xml">>

OutputPaths ==
    {BiosansOut, VulcanOut, In5Out}
    \cup {basis_xml_outfile(reflection_keys[k]) : k \in DOMAIN reflection_keys}

InputPaths == {CsvFile, nexus_file_111, nexus_file_311}

\* the input files a script reads
Reads(script) ==
    IF script = "vulcan" THEN {CsvFile}
    ELSE IF script = "basis" THEN {nexus_file_111, nexus_file_311}
    ELSE {}

Paths == OutputPaths \cup {Temp(p) : p \in OutputPaths} \cup InputPaths

-----------------------------------------------------------------------------
(* The driver scripts: one run of one script, statement group by statement
   group, ending at "done" or, after an uncaught exception, at "failed" *)

At(script, at) == pc.script = script /\ pc.at = at

Goto(at) == pc' = [pc EXCEPT !.at = at]

\* lines 33-37: the instrument handle, the file name, the basic types
BiosansBasicTypes ==
    /\ At("biosans", "start")
    /\ env' = [iinfo |-> biosans_iinfo,
               fn |-> make_filename(biosans_iinfo.instrument_name,
                                    biosans_iinfo.valid_from, biosans_iinfo.valid_to),
               double_panel |-> 0,
               n_flat_pixels |-> 0]
    /\ root' = add_basic_types(<<Helper("addSnsDefaults")>>, biosans_iinfo)
    /\ Goto("flat_type")
    /\ UNCHANGED <<ret, call, fs>>

\* line 41
BiosansFlatType ==
    /\ At("biosans", "flat_type")
    /\ \E xs \in flat_xs(env.iinfo.number_eightpacks, 3 * env.iinfo.tube_separation,
                         env.iinfo.tube_separation) :
          root' = add_double_flat_panel_type(root, env.iinfo, xs)
    /\ env' = [env EXCEPT !.double_panel = Len(root')]
    /\ Goto("flat_ids")
    /\ UNCHANGED <<ret, call, fs>>

\* lines 42-44
BiosansFlatIds ==
    /\ At("biosans", "flat_ids")
    /\ env' = [env EXCEPT !.n_flat_pixels = biosans_n_pixels(env.iinfo)]
    /\ root' = AddDetectorIds(
                   add_comment_section(root, "LIST OF PIXEL IDs in FLAT DETECTOR", NoneS),
                   "flat_panel_ids", biosans_idlist(0, biosans_n_pixels(env.iinfo)))
    /\ Goto("flat_component")
    /\ UNCHANGED <<ret, call, fs>>

\* lines 45-46
BiosansFlatComponent ==
    LET res == add_double_flat_panel_component(root, root[env.double_panel],
                   "flat_panel_ids", env.iinfo.flat_array, NoLocation)
    IN  /\ At("biosans", "flat_component")
        /\ root' = res.root
        /\ Goto(IF res.raised THEN "failed" ELSE "update")
        /\ UNCHANGED <<ret, call, env, fs>>

\* lines 50-59
BiosansUpdate ==
    /\ At("biosans", "update")
    /\ env' = [env EXCEPT !.iinfo = DictUpdate(env.iinfo, biosans_jinfo)]
    /\ Goto("curved_type")
    /\ UNCHANGED <<root, ret, call, fs>>

\* line 60
BiosansCurvedType ==
    /\ At("biosans", "curved_type")
    /\ \E w \in double_curved_written(env.iinfo, TRUE) :
          root' = add_double_curved_panel_type(root, env.iinfo, 1, TRUE, NoneS, w)
    /\ env' = [env EXCEPT !.double_panel = Len(root')]
    /\ Goto("curved_ids")
    /\ UNCHANGED <<ret, call, fs>>

\* lines 61-64
BiosansCurvedIds ==
    /\ At("biosans", "curved_ids")
    /\ root' = AddDetectorIds(
                   add_comment_section(root, "LIST OF PIXEL IDs in CURVED DETECTOR",
                                       NoneS),
                   "curved_panel_ids",
                   biosans_idlist(env.n_flat_pixels, biosans_n_pixels(env.iinfo)))
    /\ Goto("curved_component")
    /\ UNCHANGED <<ret, call, env, fs>>

\* lines 65-70: the component, then its location with the rotation about y
BiosansCurvedComponent ==
    LET r1 == add_double_curved_panel_component(root, root[env.double_panel],
                  "curved_panel_ids", env.iinfo.curved_array, NoneS)
        rot_y == (-env.iinfo.eightpack_angle * env.iinfo.number_eightpacks) \div 2
    IN  /\ At("biosans", "curved_component")
        /\ root' = [r1 EXCEPT ![Len(r1)].kids = Append(@, AddLocationRotY(0, 0, 0, rot_y))]
        /\ env' = [env EXCEPT !.double_panel = Len(r1)]
        /\ Goto("write")
        /\ UNCHANGED <<ret, call, fs>>

\* line 74
BiosansWrite ==
    \E outcome \in WriteOutcomes :
        /\ At("biosans", "write")
        /\ fs' = write_document(fs, env.fn, outcome)
        /\ Goto(IF outcome = "ok" THEN "done" ELSE "failed")
        /\ UNCHANGED <<root, ret, call, env>>

\* lines 161-173: the boiler plate and the monitors
VulcanBoilerPlate ==
    /\ At("vulcan", "start")
    /\ root' = <<Comment("DEFAULTS"), Helper("addSnsDefaults"),
                 Comment("SOURCE"), Helper("addModerator"),
                 Comment("SAMPLE"), Helper("addSamplePosition"),
                 Comment("MONITORS"), Helper("addMonitors")>>
    /\ env' = [xml_outfile |-> VulcanOut, bank_positions |-> ""]
    /\ Goto("read_positions")
    /\ UNCHANGED <<ret, call, fs>>

\* line 176: the survey file is read; a missing file or four points that do
\* not form a rectangle end the run
VulcanReadPositions ==
    \E survey \in Surveys :
        /\ At("vulcan", "read_positions")
        /\ IF fs[CsvFile] # "present" \/ survey = "skewed"
           THEN Goto("failed") /\ UNCHANGED env
           ELSE Goto("empty_components")
                /\ env' = [env EXCEPT !.bank_positions = survey]
        /\ UNCHANGED <<root, ret, call, fs>>

\* lines 179-186
VulcanEmptyComponents ==
    /\ At("vulcan", "empty_components")
    /\ root' = addEmptyComponent(
                   addEmptyComponent(
                       addEmptyComponent(root, "bank1",
                                         Rect(<<env.bank_positions, "bank1">>)),
                       "bank2", Rect(<<env.bank_positions, "bank2">>)),
                   "bank5", Rect(<<env.bank_positions, "bank5">>))
    /\ Goto("bank_positions")
    /\ UNCHANGED <<ret, call, env, fs>>

\* lines 192-206
VulcanBankPositions ==
    /\ At("vulcan", "bank_positions")
    /\ root' = addBankPosition(
                   addBankPosition(
                       addBankPosition(root, "bank1", "eightpack", 20),
                       "bank2", "eightpack", 20),
                   "bank5", "eightpackshort", 9)
    /\ Goto("eight_packs")
    /\ UNCHANGED <<ret, call, env, fs>>

\* lines 227-240: the two 8-pack types with their tubes and pixels
VulcanEightPacks ==
    /\ At("vulcan", "eight_packs")
    /\ \E xs \in Written(eight_pack_x(FALSE)), zs \in Written(eight_pack_z(FALSE)),
          xu \in Written(eight_pack_x(TRUE)), zu \in Written(eight_pack_z(TRUE)) :
          root' = addEightPack(
                      addEightPack(root, "eightpack", "tube", FALSE, xs, zs)
                          \o <<Comment("most banks are 512 pixels across 1.0m"),
                               PixelatedTube("tube", TUBE_PIXELS, "onepixel"),
                               PixelType("onepixel")>>,
                      "eightpackshort", "tubeshort", TRUE, xu, zu)
                  \o <<Comment("bank 5 is 512 pixels across 0.7m"),
                       PixelatedTube("tubeshort", TUBE_PIXELS, "onepixelshort"),
                       PixelType("onepixelshort")>>
    /\ Goto("bank_ids")
    /\ UNCHANGED <<ret, call, env, fs>>

\* lines 243-248
VulcanBankIds ==
    /\ At("vulcan", "bank_ids")
    /\ root' = addBankIds(
                   addBankIds(
                       addBankIds(AddComment(root, "DETECTOR IDs - panel is an 8-pack"),
                                  "bank1", 0, 20),
                       "bank2", PIXELS_PER_BANK, 20),
                   "bank5", 4 * PIXELS_PER_BANK, 9)
    /\ Goto("monitors")
    /\ UNCHANGED <<ret, call, env, fs>>

\* lines 251-258
VulcanMonitors ==
    /\ At("vulcan", "monitors")
    /\ root' = root \o <<Comment(" Shape for Monitors"),
                          Comment(" TODO: Update to real shape "),
                          Helper("addDummyMonitor"),
                          Comment("MONITOR IDs"), Helper("addMonitorIds")>>
    /\ Goto("write")
    /\ UNCHANGED <<ret, call, env, fs>>

\* line 261
VulcanWrite ==
    \E outcome \in WriteOutcomes :
        /\ At("vulcan", "write")
        /\ fs' = write_document(fs, env.xml_outfile, outcome)
        /\ Goto(IF outcome = "ok" THEN "done" ELSE "failed")
        /\ UNCHANGED <<root, ret, call, env>>

\* lines 36-48: the handle, the boiler plate, the pixel
In5BoilerPlate ==
    /\ At("in5", "start")
    /\ root' = <<Helper("addSnsDefaults"), Helper("addComponentILL"),
                 Helper("addComponentILL"), Helper("addMonitors"),
                 Helper("addDummyMonitor"), Helper("addMonitorIds"),
                 in5_pixel>>
    /\ env' = [out |-> In5Out]
    /\ Goto("bank")
    /\ UNCHANGED <<ret, call, fs>>

\* lines 49-67: the bank of tubes and the tube of pixels
In5BankAndTube ==
    /\ At("in5", "bank")
    /\ root' = root \o <<in5_bank, in5_tube>>
    /\ Goto("detectors")
    /\ UNCHANGED <<ret, call, env, fs>>

\* lines 68-72: the detectors component, its type and its idlist
In5Detectors ==
    /\ At("in5", "detectors")
    /\ root' = AddDetectorIds(
                   root \o <<AddComponent("detectors", "detectors"),
                             TypeNode("detectors",
                                 <<ComponentNode("bank_uniq",
                                                 <<[tag |-> "location"]>>)>>)>>,
                   "detectors", in5_idlist)
    /\ Goto("write")
    /\ UNCHANGED <<ret, call, env, fs>>

\* line 73
In5Write ==
    \E outcome \in WriteOutcomes :
        /\ At("in5", "write")
        /\ fs' = write_document(fs, env.out, outcome)
        /\ Goto(IF outcome = "ok" THEN "done" ELSE "failed")
        /\ UNCHANGED <<root, ret, call, env>>

\* generate_wing_detector.py lines 27-52: the module is loaded and the
\* values are set, the time stamp among them; earlier holds the texts of
\* the runs before this one
WingLoad ==
    \E now \in 1..MaxClock :
        /\ At("wing", "start")
        /\ env' = [values |-> wing_values(now), texts |-> <<>>, earlier |-> <<>>]
        /\ Goto("main")
        /\ UNCHANGED <<root, ret, call, fs>>

\* lines 140-147 (and 152): the text is rendered
WingToString ==
    /\ At("wing", "main")
    /\ Len(env.texts) < MaxRenders
    /\ \E now \in 1..MaxClock :
          /\ now >= env.values.last_modified
          /\ env' = [env EXCEPT !.texts = Append(@, to_string(env.values, now))]
    /\ UNCHANGED <<root, ret, call, pc, fs>>

\* the generator is run again, at the same time or later
WingRunAgain ==
    \E now \in 1..MaxClock :
        /\ At("wing", "main")
        /\ Len(env.texts) >= 1
        /\ Len(env.earlier) + 1 < MaxRuns
        /\ now >= env.values.last_modified
        /\ env' = [values |-> wing_values(now), texts |-> <<>>,
                   earlier |-> Append(env.earlier, env.texts[1])]
        /\ UNCHANGED <<root, ret, call, pc, fs>>

\* basis_geometry.py lines 261-263 and 136-139: the main loop takes the next
\* key; a missing nexus file raises, and the exception ends the run
BasisCheck ==
    /\ pc.script = "basis" /\ pc.at \in {"start", "check"}
    /\ LET k == IF pc.at = "start" THEN 1 ELSE env.k
           e == IF pc.at = "start"
                THEN [k |-> 1, nfile |-> "closed", error |-> <<>>,
                      opened |-> {}, built |-> {}, written |-> {}]
                ELSE env
           path == reflections(reflection_keys[k]).nexus
       IN  IF nexus_missing(fs, path)
           THEN /\ env' = [e EXCEPT !.error = <<"FileExistsError">>
                                               \o not_found_message(path)]
                /\ Goto("failed")
           ELSE /\ env' = e
                /\ Goto("open")
    /\ UNCHANGED <<root, ret, call, fs>>

\* lines 146-147: h5py.File(refl['nexus'], 'r') raises for a file that is
\* not there or is not an HDF5 file
BasisOpen ==
    /\ At("basis", "open")
    /\ LET path == reflections(reflection_keys[env.k]).nexus
       IN  IF fs[path] = "present"
           THEN /\ env' = [env EXCEPT !.nfile = "open", !.opened = @ \cup {env.k}]
                /\ Goto("build")
           ELSE /\ env' = [env EXCEPT !.error = <<"OSError">> \o path]
                /\ Goto("failed")
    /\ UNCHANGED <<root, ret, call, fs>>

\* lines 149-253
BasisBuild ==
    /\ At("basis", "build")
    /\ root' = basis_document(reflection_keys[env.k])
    /\ env' = [env EXCEPT !.built = @ \cup {env.k}]
    /\ Goto("write")
    /\ UNCHANGED <<ret, call, fs>>

\* line 255
BasisWrite ==
    \E outcome \in WriteOutcomes :
        /\ At("basis", "write")
        /\ fs' = write_document(fs, basis_xml_outfile(reflection_keys[env.k]), outcome)
        /\ env' = [env EXCEPT !.written = @ \cup {env.k},
                              !.error = IF outcome = "ok" THEN @ ELSE <<"IOError">>]
        /\ Goto(IF outcome = "ok" THEN "close" ELSE "failed")
        /\ UNCHANGED <<root, ret, call>>

\* line 258, then the next key of the loop
BasisClose ==
    /\ At("basis", "close")
    /\ env' = [env EXCEPT !.nfile = "closed",
                          !.k = IF @ < Len(reflection_keys) THEN @ + 1 ELSE @]
    /\ Goto(IF env.k < Len(reflection_keys) THEN "check" ELSE "done")
    /\ UNCHANGED <<root, ret, call, fs>>

-----------------------------------------------------------------------------
(* The runs *)

Scripts == {"biosans", "vulcan", "in5", "wing", "basis"}

\* before a run no output exists; an input file the script reads may be
\* missing, or there with content the script cannot read
InitialFiles(script) ==
    {[p \in Paths |-> IF p \in Reads(script) THEN g[p]
                      ELSE IF p \in InputPaths THEN "present" ELSE "absent"] :
        g \in [Reads(script) -> {"absent", "present", "garbled"}]}

DriverInit ==
    /\ root = <<>>
    /\ ret = <<>>
    /\ call = [op |-> "init", before |-> 0]
    /\ env = <<>>
    /\ \E script \in Scripts :
          /\ pc = [script |-> script, at |-> "start"]
          /\ fs \in InitialFiles(script)

DriverNext ==
    \/ BiosansBasicTypes
    \/ BiosansFlatType
    \/ BiosansFlatIds
    \/ BiosansFlatComponent
    \/ BiosansUpdate
    \/ BiosansCurvedType
    \/ BiosansCurvedIds
    \/ BiosansCurvedComponent
    \/ BiosansWrite
    \/ VulcanBoilerPlate
    \/ VulcanReadPositions
    \/ VulcanEmptyComponents
    \/ VulcanBankPositions
    \/ VulcanEightPacks
    \/ VulcanBankIds
    \/ VulcanMonitors
    \/ VulcanWrite
    \/ In5BoilerPlate
    \/ In5BankAndTube
    \/ In5Detectors
    \/ In5Write
    \/ WingLoad
    \/ WingToString
    \/ WingRunAgain
    \/ BasisCheck
    \/ BasisOpen
    \/ BasisBuild
    \/ BasisWrite
    \/ BasisClose

Drivers == DriverInit /\ [][DriverNext]_vars

-----------------------------------------------------------------------------
(* Reading the state *)

\* the ids an idlist enumerates, in order: each (start, end, None) triple
\* stands for start, start + 1, ..., end
RECURSIVE IdsOf(_)
IdsOf(l) ==
    IF Len(l) < 3 THEN <<>>
    ELSE [k \in 1..(l[2].v - l[1].v + 1) |-> l[1].v + (k - 1)]
         \o IdsOf(SubSeq(l, 4, Len(l)))

\* the i-th (1-based) triple of a flat idlist
Triple(l, i) == SubSeq(l, 3 * i - 2, 3 * i)

NoRepeat(seq) == Cardinality({seq[k] : k \in DOMAIN seq}) = Len(seq)

LastNode == root[Len(root)]

\* the locations of a type node built as <properties/> <component> ... </component>
Locs(node) == node.kids[2].kids

-----------------------------------------------------------------------------
(* C1 .. C3: id lists *)

\* C1: with gap = 0 the ranges returned by panel_idlist, concatenated in
\* order, are exactly the number_eightpacks * 4 * pixels_per_tube consecutive
\* integers that begin at start.
C1_DenseIdsConsecutive ==
    (call.op = "panel_idlist" /\ call.gap = 0) =>
        IdsOf(ret) = [k \in 1..(call.iinfo.number_eightpacks * 4
                                * call.iinfo.pixels_per_tube) |->
                         call.start + (k - 1)]

C1_Witness ==
    /\ call.op = "panel_idlist" /\ call.gap = 0
    /\ call.iinfo.number_eightpacks = 2 /\ call.iinfo.pixels_per_tube = 256
    /\ call.start = 7
    /\ Len(IdsOf(ret)) = 2048

\* C2: panel_idlist returns one (start_i, end_i, None) triple per unit, in
\* unit order, with start_i = start + i * (4 * pixels_per_tube + gap) and
\* end_i = start_i + 4 * pixels_per_tube - 1; for 2 units of 256-pixel tubes,
\* start = 0, gap = 0 the list is [0, 1023, None, 1024, 2047, None].
C2_TriplePerUnit ==
    call.op = "panel_idlist" =>
        LET n == call.iinfo.number_eightpacks
            fp == 4 * call.iinfo.pixels_per_tube
        IN  /\ Len(ret) = 3 * n
            /\ \A i \in 0..(n - 1) :
                 LET start_i == call.start + i * (fp + call.gap)
                 IN  Triple(ret, i + 1)
                       = <<IntV(start_i), IntV(start_i + fp - 1), NoneV>>
            /\ (n = 2 /\ fp = 1024 /\ call.start = 0 /\ call.gap = 0) =>
                 ret = <<IntV(0), IntV(1023), NoneV, IntV(1024), IntV(2047), NoneV>>

C2_Witness ==
    /\ call.op = "panel_idlist"
    /\ call.iinfo.number_eightpacks = 2 /\ call.iinfo.pixels_per_tube = 256
    /\ call.start = 0 /\ call.gap = 0
    /\ Len(ret) = 6

\* C3: the list add_double_panel_idlist hands to addDetectorIds holds the N
\* ranges of the front panel first and the N ranges of the back panel after
\* them; the ranges are pairwise disjoint and together hold each id of
\* start .. start + 8 * pixels_per_tube * N - 1 exactly once.
C3_FrontThenBackPartition ==
    call.op = "add_double_panel_idlist" =>
        LET n == call.iinfo.number_eightpacks
            fp == 4 * call.iinfo.pixels_per_tube
            node == LastNode
            ids == IdsOf(node.ids)
        IN  /\ node.tag = "idlist" /\ node.idname = call.name
            /\ Len(node.ids) = 6 * n
            /\ \A i \in 0..(n - 1) :
                 /\ Triple(node.ids, i + 1)[1].v = call.start + 2 * i * fp
                 /\ Triple(node.ids, n + i + 1)[1].v = call.start + fp + 2 * i * fp
                 /\ \A t \in {i + 1, n + i + 1} :
                      /\ Triple(node.ids, t)[2].v = Triple(node.ids, t)[1].v + fp - 1
                      /\ Triple(node.ids, t)[3] = NoneV
            /\ NoRepeat(ids)
            /\ {ids[k] : k \in DOMAIN ids}
                 = call.start .. (call.start + 8 * call.iinfo.pixels_per_tube * n - 1)

C3_Witness ==
    /\ call.op = "add_double_panel_idlist"
    /\ call.iinfo.number_eightpacks = 2 /\ call.iinfo.pixels_per_tube = 256
    /\ LastNode.tag = "idlist"
    /\ Len(IdsOf(LastNode.ids)) = 4096

-----------------------------------------------------------------------------
(* C4 .. C6: flat builders *)

XsOf(locs) == [k \in DOMAIN locs |-> locs[k].x]

Count(seq, v) == Cardinality({k \in DOMAIN seq : seq[k] = v})

ClosedUnderNegation(seq) ==
    \A k \in DOMAIN seq : Count(seq, seq[k]) = Count(seq, -seq[k])

\* the x handed to addLocation for each pack of a bank
BankXs(node) == [k \in DOMAIN node.kids |-> node.kids[k].kids[1].x]

\* C4: the multiset of x offsets emitted by a flat builder is closed under
\* negation: add_flat_panel_type for every num_elem and pitch, addBankPosition
\* for every num_panels, addEightPack for both values of upsidedown.
C4_OffsetsClosedUnderNegation ==
    /\ call.op = "add_flat_panel_type" => ClosedUnderNegation(XsOf(Locs(LastNode)))
    /\ call.op = "addBankPosition" => ClosedUnderNegation(BankXs(LastNode))
    /\ call.op = "addEightPack" => ClosedUnderNegation(XsOf(Locs(LastNode)))

\* the two builders of vulcan_geometry.py alone do emit symmetric offsets
VulcanOffsetsClosedUnderNegation ==
    /\ call.op = "addBankPosition" => ClosedUnderNegation(BankXs(LastNode))
    /\ call.op = "addEightPack" => ClosedUnderNegation(XsOf(Locs(LastNode)))

\* C5 as stated: the k-th location emitted by add_flat_panel_type is named
\* name_elem{first_index + k} and has x offset (k - (n-1)/2) * pitch (as
\* written with 5 decimals).
C5_KthOffsetAscending ==
    call.op = "add_flat_panel_type" =>
        LET locs == Locs(LastNode)
            n == call.num_elem
            pitch == call.width + call.gap
        IN  /\ Len(locs) = n
            /\ \A k \in 0..(n - 1) :
                 /\ locs[k + 1].name = ElemName(call.name_elem, call.first_index + k)
                 /\ locs[k + 1].x \in Fmt5((2 * k - (n - 1)) * pitch, 2)

\* C5 amended: the k-th location emitted by add_flat_panel_type is named
\* name_elem{first_index + k} and has x offset ((n-1)/2 - k) * pitch, written
\* with 5 decimals.
C5_KthOffsetDescending ==
    call.op = "add_flat_panel_type" =>
        LET locs == Locs(LastNode)
            n == call.num_elem
            pitch == call.width + call.gap
        IN  /\ Len(locs) = n
            /\ \A k \in 0..(n - 1) :
                 /\ locs[k + 1].name = ElemName(call.name_elem, call.first_index + k)
                 /\ locs[k + 1].x \in Fmt5(((n - 1) - 2 * k) * pitch, 2)

C5_Witness ==
    /\ call.op = "add_flat_panel_type"
    /\ call.num_elem = 3 /\ call.width = 82100 /\ call.gap = 110000
    /\ call.first_index = 5
    /\ Locs(LastNode)[1].x = 192100
    /\ Locs(LastNode)[3].name = <<"bank", 7>>

-----------------------------------------------------------------------------
(* C7, C8: add_curved_panel_type *)

\* the angular position of each emitted element (the angle its x and z are
\* computed from)
ThetasOf(locs) == [k \in DOMAIN locs |-> locs[k].x.theta]

RECURSIVE SumSeq(_)
SumSeq(seq) == IF seq = <<>> THEN 0 ELSE Head(seq) + SumSeq(Tail(seq))

-----------------------------------------------------------------------------
(* C9, C10: double composers *)

\* C9: add_double_pack appends to the root exactly one type, named
\* assembly_type, holding one component of type pack_type with exactly two
\* locations, front-<pack_type> and back-<pack_type>, whose (x, z) offsets
\* are negatives of each other with |z| = separation/2 and |x| = slip/2; it
\* creates no idlist and puts no idlist attribute on anything.
C9_DoublePackAppendsOneType ==
    [][call'.op = "add_double_pack" =>
         LET node == root'[Len(root')]
             comp == node.kids[2]
             front == comp.kids[1]
             back == comp.kids[2]
         IN  /\ Len(root') = Len(root) + 1
             /\ SubSeq(root', 1, Len(root)) = root
             /\ node.tag = "type" /\ node.name = call'.assembly_type
             /\ Len(node.kids) = 2 /\ node.kids[1] = Properties
             /\ comp.tag = "component" /\ comp.type = call'.pack_type
             /\ Len(comp.kids) = 2
             /\ front.tag = "location" /\ back.tag = "location"
             /\ front.name = [prefix |-> "front", base |-> call'.pack_type]
             /\ back.name = [prefix |-> "back", base |-> call'.pack_type]
             /\ front.x = -back.x /\ front.z = -back.z
             /\ 2 * Abs(front.z) = call'.separation
             /\ 2 * Abs(front.x) = call'.slip
             /\ node.tag # "idlist"
             /\ \A e \in {node, comp, front, back} : "idlist" \notin DOMAIN e
    ]_vars

C9_Witness ==
    /\ call.op = "add_double_pack"
    /\ call.separation = 82000 /\ call.slip = 55000
    /\ Len(root) = call.before + 1
    /\ Locs(LastNode)[2].x = 27500 /\ Locs(LastNode)[2].z = 41000

\* C10: for equal separation and slip, add_double_flat_panel_type places its
\* front copy and its back copy at the same (x, z) offsets as add_double_pack
\* places its front and back copies.
C10_SameFrontBackConvention ==
    call.op = "add_double_flat_panel_type" =>
        LET dp == double_pack_locations("fourpack", call.iinfo.fourpack_separation,
                                        call.iinfo.fourpack_slip)
            front == LastNode.kids[2].kids[1]
            back == LastNode.kids[3].kids[1]
        IN  /\ front.x = dp[1].x /\ front.z = dp[1].z
            /\ back.x = dp[2].x /\ back.z = dp[2].z

-----------------------------------------------------------------------------
(* C11: make_filename *)

\* the number of periods (year, month, day) up to and including the first at
\* which the two dates differ; 3 when they never differ
CutAt(f, t) ==
    IF f[1] # t[1] THEN 1 ELSE IF f[2] # t[2] THEN 2 ELSE 3

\* the first c periods of a date joined by '-'
RECURSIVE JoinDash(_, _)
JoinDash(date, c) ==
    IF c = 1 THEN Str(date[1])
    ELSE JoinDash(date, c - 1) \o <<"-">> \o Str(date[c])

\* C11: make_filename(name, valid_from, valid_to) returns
\* '<name>_Definition_<F>_<T>.xml' where F and T are the year, month and day
\* of the two dates joined by '-', cut after the first of them (in that
\* order) at which the two dates differ; two dates with equal year, month
\* and day give all three components of both.
C11_FilenameCutAtFirstDifference ==
    call.op = "make_filename" =>
        LET f == call.valid_from
            t == call.valid_to
            c == CutAt(f, t)
        IN  /\ ret = <<call.instrument_name, "_Definition_">> \o JoinDash(f, c)
                      \o <<"_">> \o JoinDash(t, c) \o <<".xml">>
            /\ f = t => ret = <<call.instrument_name, "_Definition_">>
                               \o JoinDash(f, 3) \o <<"_">> \o JoinDash(f, 3)
                               \o <<".xml">>

C11_Witness ==
    /\ call.op = "make_filename"
    /\ call.valid_from = <<2019, 1, 1>> /\ call.valid_to = <<2100, 12, 31>>
    /\ ret = <<"BIOSANS", "_Definition_", "2", "0", "1", "9", "_",
               "2", "1", "0", "0", ".xml">>

C11_WitnessSameMonth ==
    /\ call.op = "make_filename"
    /\ call.valid_from = <<2019, 11, 1>> /\ call.valid_to = <<2019, 11, 31>>
    /\ ret = <<"BIOSANS", "_Definition_", "2", "0", "1", "9", "-", "1", "1", "-", "1",
               "_", "2", "0", "1", "9", "-", "1", "1", "-", "3", "1", ".xml">>

-----------------------------------------------------------------------------
(* C12: the types a double panel refers to *)

\* the names of the type nodes directly under the root
TypeNames(r) == {r[k].name : k \in {j \in DOMAIN r : r[j].tag = "type"}}

\* the component types a double panel type refers to, front then back
PanelRefs(node) == <<node.kids[2].type, node.kids[3].type>>

\* C12: the two component types that add_double_flat_panel_type puts inside
\* 'double-flat-panel' are the names of the front and back panel types it
\* has just created from iinfo['flat_panel_types'], and the two that
\* add_double_curved_panel_type puts inside 'double-curved-panel' are the
\* types created from iinfo['curved_panel_types']; each referenced type has
\* a definition in the tree.
C12_PanelRefsAreCreatedTypes ==
    /\ call.op = "add_double_flat_panel_type" =>
          /\ PanelRefs(LastNode) = <<call.iinfo.flat_panel_types.front,
                                     call.iinfo.flat_panel_types.back>>
          /\ \A k \in 1..2 : PanelRefs(LastNode)[k] \in TypeNames(root)
    /\ call.op = "add_double_curved_panel_type" =>
          /\ PanelRefs(LastNode) = <<call.iinfo.curved_panel_types.front,
                                     call.iinfo.curved_panel_types.back>>
          /\ \A k \in 1..2 : PanelRefs(LastNode)[k] \in TypeNames(root)

\* the curved composer alone does refer to the types it created
CurvedPanelRefsAreCreatedTypes ==
    call.op = "add_double_curved_panel_type" =>
        /\ PanelRefs(LastNode) = <<call.iinfo.curved_panel_types.front,
                                   call.iinfo.curved_panel_types.back>>
        /\ \A k \in 1..2 : PanelRefs(LastNode)[k] \in TypeNames(root)

-----------------------------------------------------------------------------
(* C17: element names across the front and the back panel *)

NamesOf(node) == [k \in DOMAIN Locs(node) |-> Locs(node)[k].name]

\* the panel types a double composer creates: each is the fourth node of an
\* add_flat_panel_type / add_curved_panel_type call (three comments, a type)
FrontCreated == root[call.before + 4]
BackCreated == root[call.before + 8]

\* C17: across the front and back panel of a double panel the element names
\* are name_elem followed by consecutive integers without repeat or hole:
\* the front panel uses first .. first + N - 1, the back panel first + N ..
\* first + 2N - 1 (N = number_eightpacks), the front panel being created
\* and referred to before the back panel, which is the order in which a
\* dense idlist hands out its ids.
C17_NamesConsecutiveFrontThenBack ==
    call.op \in {"add_double_flat_panel_type", "add_double_curved_panel_type"} =>
        LET n == call.iinfo.number_eightpacks
            first == IF call.op = "add_double_flat_panel_type" THEN 1
                     ELSE call.first_bank_number
            types == IF call.op = "add_double_flat_panel_type"
                     THEN call.iinfo.flat_panel_types
                     ELSE call.iinfo.curved_panel_types
            names == NamesOf(FrontCreated) \o NamesOf(BackCreated)
        IN  /\ FrontCreated.tag = "type" /\ FrontCreated.name = types.front
            /\ BackCreated.tag = "type" /\ BackCreated.name = types.back
            /\ Len(NamesOf(FrontCreated)) = n /\ Len(NamesOf(BackCreated)) = n
            /\ names = [k \in 1..(2 * n) |-> <<call.iinfo.bank_name, first + (k - 1)>>]
            /\ NoRepeat(names)
            /\ PanelRefs(LastNode)[1] # types.back
            /\ PanelRefs(LastNode)[2] # types.front

C17_Witness ==
    /\ call.op = "add_double_curved_panel_type"
    /\ call.iinfo.number_eightpacks = 2 /\ call.first_bank_number = 5
    /\ NamesOf(FrontCreated) = <<(<<"wing-bank", 5>>), (<<"wing-bank", 6>>)>>
    /\ NamesOf(BackCreated) = <<(<<"wing-bank", 7>>), (<<"wing-bank", 8>>)>>

C17_WitnessFlat ==
    /\ call.op = "add_double_flat_panel_type"
    /\ call.iinfo.number_eightpacks = 2
    /\ NamesOf(FrontCreated) = <<(<<"bank", 1>>), (<<"bank", 2>>)>>
    /\ NamesOf(BackCreated) = <<(<<"bank", 3>>), (<<"bank", 4>>)>>

-----------------------------------------------------------------------------
(* Reading the document of a driver *)

\* the components directly under the root that name an idlist
RefIdx(r) == {k \in DOMAIN r : r[k].tag = "component" /\ "idlist" \in DOMAIN r[k]}

\* the idlists declared under the root
DeclIdx(r) == {k \in DOMAIN r : r[k].tag = "idlist"}

IdlistNamed(r, name) == r[CHOOSE k \in DeclIdx(r) : r[k].idname = name]

ComponentWithIds(r, name) == r[CHOOSE k \in RefIdx(r) : r[k].idlist = name]

\* the number of detector pixels placed under a type: a detector type is one
\* pixel, any other type has, for each of its components, one copy of the
\* component's type per location; a type without definition places none
RECURSIVE PixelsOfType(_, _, _)
PixelsOfType(r, name, depth) ==
    LET idx == {k \in DOMAIN r : r[k].tag = "type" /\ r[k].name = name}
    IN  IF depth = 0 \/ idx = {} THEN 0
        ELSE LET t == r[CHOOSE k \in idx : TRUE]
             IN  IF "is" \in DOMAIN t THEN 1
                 ELSE SumSeq([c \in DOMAIN t.kids |->
                          IF t.kids[c].tag = "component"
                          THEN Len(t.kids[c].kids)
                               * PixelsOfType(r, t.kids[c].type, depth - 1)
                          ELSE 0])

\* the pixels under a type of the document
PixelsUnder(name) == PixelsOfType(root, name, Len(root))

-----------------------------------------------------------------------------
(* C13: idlist references of the VULCAN and BIOSANS scripts *)

\* C13: when the VULCAN or the BIOSANS script calls writeGeom, every idlist
\* name referenced by a component (bank1, bank2, bank5; flat_panel_ids,
\* curved_panel_ids) has been declared by exactly one addDetectorIds call of
\* that name, and every declared detector idlist is referenced by exactly
\* one component.
C13_IdlistsDeclaredAndReferencedOnce ==
    (pc.script \in {"vulcan", "biosans"} /\ pc.at = "write") =>
        /\ \A k \in RefIdx(root) :
              Cardinality({j \in DeclIdx(root) : root[j].idname = root[k].idlist}) = 1
        /\ \A j \in DeclIdx(root) :
              Cardinality({k \in RefIdx(root) : root[k].idlist = root[j].idname}) = 1
        /\ {root[k].idlist : k \in RefIdx(root)}
              = IF pc.script = "vulcan" THEN {"bank1", "bank2", "bank5"}
                ELSE {"flat_panel_ids", "curved_panel_ids"}

C13_Witness ==
    /\ At("vulcan", "write")
    /\ Cardinality(DeclIdx(root)) = 3
    /\ Cardinality(RefIdx(root)) = 3

C13_WitnessBiosans ==
    /\ At("biosans", "write")
    /\ Cardinality(DeclIdx(root)) = 2
    /\ Cardinality(RefIdx(root)) = 2

-----------------------------------------------------------------------------
(* C14: the idlists of the BIOSANS script *)

\* the number of ids of a (first, last, step 1) idlist
IdCount(ids) == ids[2].v - ids[1].v + 1

\* C14: in the BIOSANS script the flat idlist is exactly 0 .. 24*8*256 - 1
\* and the curved idlist exactly the next 20*8*256 ids; each has as many ids
\* as there are pixels under its double panel type (2 panels x
\* number_eightpacks four-packs x 4 tubes x pixels_per_tube, with 24
\* eight-packs for the flat and 20 for the curved panel), and the two ranges
\* are disjoint and adjacent.
C14_BiosansIdlistsMatchPixels ==
    At("biosans", "write") =>
        LET flat == IdlistNamed(root, "flat_panel_ids").ids
            curved == IdlistNamed(root, "curved_panel_ids").ids
            flat_pixels == PixelsUnder(ComponentWithIds(root, "flat_panel_ids").type)
            curved_pixels == PixelsUnder(ComponentWithIds(root, "curved_panel_ids").type)
        IN  /\ flat = <<IntV(0), IntV(24 * 8 * 256 - 1), IntV(1)>>
            /\ curved = <<IntV(24 * 8 * 256), IntV(24 * 8 * 256 + 20 * 8 * 256 - 1),
                          IntV(1)>>
            /\ flat_pixels = 2 * 24 * 4 * 256
            /\ curved_pixels = 2 * 20 * 4 * 256
            /\ IdCount(flat) = flat_pixels
            /\ IdCount(curved) = curved_pixels
            /\ flat[2].v < curved[1].v
            /\ curved[1].v = flat[2].v + 1

C14_Witness ==
    /\ At("biosans", "write")
    /\ env.iinfo.number_eightpacks = 20
    /\ PixelsUnder("double-flat-panel") = 49152
    /\ PixelsUnder("double-curved-panel") = 40960

-----------------------------------------------------------------------------
(* C16: the id blocks of the VULCAN script *)

\* the banks of the instrument: the first id reserved for the bank and the
\* number of its panels
VulcanBlocks ==
    <<[bank |-> "bank1", offset |-> 0, panels |-> 20],
      [bank |-> "bank2", offset |-> 100000, panels |-> 20],
      [bank |-> "bank5", offset |-> 400000, panels |-> 9]>>

\* the id range of panel i (from 0) of a bank
PanelRange(b, i) == Triple(IdlistNamed(root, VulcanBlocks[b].bank).ids, i + 1)

VulcanPanels == {<<b, i>> : b \in 1..3, i \in 0..19} \ {<<3, i>> : i \in 9..19}

\* C16: in the VULCAN script every eight-pack gets exactly 8 * 512
\* contiguous ids starting at bank_offset + PIXELS_PER_PANEL * i, every
\* panel's range lies inside its bank's block [bank_offset, bank_offset +
\* PIXELS_PER_BANK), and the ranges of all panels of all banks (20, 20 and 9
\* panels) are pairwise disjoint.
C16_VulcanPanelIdBlocks ==
    (pc.script = "vulcan" /\ pc.at \in {"monitors", "write", "done"}) =>
        /\ \A b \in 1..3 :
              Len(IdlistNamed(root, VulcanBlocks[b].bank).ids)
                  = 3 * VulcanBlocks[b].panels
        /\ \A p \in VulcanPanels :
              LET t == PanelRange(p[1], p[2])
                  offset == VulcanBlocks[p[1]].offset
              IN  /\ t[1].v = offset + 5000 * p[2]
                  /\ t[2].v - t[1].v + 1 = 8 * 512
                  /\ t[3] = NoneV
                  /\ offset <= t[1].v /\ t[2].v < offset + 100000
        /\ \A p \in VulcanPanels, q \in VulcanPanels :
              p # q => \/ PanelRange(p[1], p[2])[2].v < PanelRange(q[1], q[2])[1].v
                       \/ PanelRange(q[1], q[2])[2].v < PanelRange(p[1], p[2])[1].v

C16_Witness ==
    /\ At("vulcan", "done")
    /\ PanelRange(3, 8) = <<IntV(440000), IntV(444095), NoneV>>
    /\ PanelRange(2, 19) = <<IntV(195000), IntV(199095), NoneV>>

-----------------------------------------------------------------------------
(* C15: the single-range idlists *)

\* C15: in each single-range driver the idlist has one id per placed pixel:
\* the range the IN5 script passes to addDetectorIds('detectors', ...) is
\* [1, 98304, None] and equals firstDetectorId .. firstDetectorId +
\* numberOfPixelsPerTube * len(azimuthalAngle) - 1, and in the BIOSANS wing
\* generator last_id - first_id + 1 equals len(tube_pos_angle) *
\* len(pixel_positions).
C15_OneIdPerPlacedPixel ==
    /\ At("in5", "write") =>
          LET ids == IdlistNamed(root, "detectors").ids
              tubes == root[CHOOSE k \in DOMAIN root :
                               root[k].tag = "type" /\ root[k].name = "bank_uniq"]
                           .kids[1].kids
          IN  /\ ids = <<IntV(1), IntV(98304), NoneV>>
              /\ Len(tubes) = Len(azimuthalAngle)
              /\ ids[1].v = firstDetectorId
              /\ ids[2].v = firstDetectorId + numberOfPixelsPerTube * Len(tubes) - 1
              /\ IdCount(ids) = PixelsUnder(ComponentWithIds(root, "detectors").type)
    /\ At("wing", "main") =>
          env.values.last_id - env.values.first_id + 1
              = Len(env.values.tube_pos_angle) * Len(env.values.pixel_positions)

C15_Witness ==
    /\ At("in5", "write")
    /\ PixelsUnder("detectors") = 98304
    /\ Len(azimuthalAngle) = 384

C15_WitnessWing ==
    /\ At("wing", "main")
    /\ env.values.last_id = 2040959
    /\ Len(env.values.tube_pos_angle) = 160 /\ Len(env.values.pixel_positions) = 256

-----------------------------------------------------------------------------
(* C20: the text of the BIOSANS wing generator *)

\* a text with its last-modified value left out
WithoutStamp(text) == SubSeq(text, 2, Len(text))

-----------------------------------------------------------------------------
(* C18: a missing nexus file in the BASIS script *)

\* the run of the BASIS script is at the key whose nexus file does not exist
\* and has passed the top of generate_reflection_file
MissingNexusAt(k) ==
    /\ pc.script = "basis" /\ pc.at # "start"
    /\ env.k = k
    /\ fs[reflections(reflection_keys[k]).nexus] = "absent"
    /\ pc.at # "check"

\* C18: generate_reflection_file(key) aborts when the nexus file of the
\* reflection does not exist: it raises an error whose message names the
\* missing path before the nexus file is opened, before a MantidGeom is built
\* and before writeGeom is called, so no output file is produced for that
\* key; the first such failure ends the run of the main loop and no later
\* reflection is generated.
C18_MissingNexusAborts ==
    \A k \in DOMAIN reflection_keys :
        MissingNexusAt(k) =>
            /\ pc.at = "failed"
            /\ env.error = <<"FileExistsError">>
                             \o reflections(reflection_keys[k]).nexus
                             \o <<" not found. Not creating geometry">>
            /\ env.nfile = "closed"
            /\ \A j \in k..Len(reflection_keys) :
                  /\ j \notin env.opened \cup env.built \cup env.written
                  /\ fs[basis_xml_outfile(reflection_keys[j])] = "absent"
                  /\ fs[Temp(basis_xml_outfile(reflection_keys[j]))] = "absent"
            /\ ~ ENABLED DriverNext

\* the file of the 311 reflection is missing: the three reflections before
\* it are written and the run ends at the fourth
C18_Witness ==
    /\ MissingNexusAt(4)
    /\ pc.at = "failed"
    /\ env.written = {1, 2, 3}
    /\ fs[basis_xml_outfile("333")] = "complete"
    /\ fs[basis_xml_outfile("311")] = "absent"

\* the file of the first reflection is missing: nothing is generated
C18_WitnessFirstKey ==
    /\ MissingNexusAt(1)
    /\ pc.at = "failed"
    /\ env.opened = {}
    /\ root = <<>>

-----------------------------------------------------------------------------
(* C19: the output file of a failed run *)

C19_WitnessVulcan ==
    /\ pc = [script |-> "vulcan", at |-> "failed"]
    /\ fs[CsvFile] = "present"
    /\ env.bank_positions \in Surveys
    /\ fs[VulcanOut] = "absent"
    /\ fs[Temp(VulcanOut)] = "partial"

-----------------------------------------------------------------------------
(* C21: the default root name of the elements *)

\* C21: when name_elem is None (its default), add_flat_panel_type and
\* add_curved_panel_type use type_elem as the root name of the elements: the
\* locations are named type_elem{first_index + i}.
C21_DefaultNameIsTypeElem ==
    (call.op \in {"add_flat_panel_type", "add_curved_panel_type"}
     /\ ~ call.name_elem.some) =>
        NamesOf(LastNode) = [k \in 1..call.num_elem |->
                                <<call.type_elem, call.first_index + (k - 1)>>]

\* what the code writes instead: the text None followed by the number
DefaultNameIsTextNone ==
    (call.op \in {"add_flat_panel_type", "add_curved_panel_type"}
     /\ ~ call.name_elem.some) =>
        NamesOf(LastNode) = [k \in 1..call.num_elem |->
                                <<"None", call.first_index + (k - 1)>>]

-----------------------------------------------------------------------------
(* C22: the component of the double flat panel *)

\* the node add_double_flat_panel_component appended after its comments
ComponentCreated == root[Len(root)]

\* C22: add_double_flat_panel_component appends one component (type = the
\* name of the double panel, with the given idlist and name) to the root and
\* returns it; when location is None the component gets no location child,
\* and when location is a position vector the call succeeds and the component
\* gets one location at that position.
C22_ComponentWithOptionalLocation ==
    call.op = "add_double_flat_panel_component" =>
        /\ ComponentCreated.tag = "component"
        /\ ComponentCreated.type = call.double_panel.name
        /\ ComponentCreated.idlist = call.idlist
        /\ ComponentCreated.name = call.name
        /\ Cardinality({k \in (call.before + 1)..Len(root) :
                           root[k].tag = "component"}) = 1
        /\ ~ call.raised
        /\ ComponentCreated.kids =
               IF call.location.some
               THEN <<AddLocation(call.location.v[1], call.location.v[2],
                                  call.location.v[3])>>
               ELSE <<>>

\* what does hold: the component is appended without a location child, and
\* the call raises exactly when a location is given
ComponentWithoutLocation ==
    call.op = "add_double_flat_panel_component" =>
        /\ ComponentCreated.tag = "component"
        /\ ComponentCreated.type = call.double_panel.name
        /\ ComponentCreated.idlist = call.idlist
        /\ ComponentCreated.name = call.name
        /\ ComponentCreated.kids = <<>>
        /\ call.raised = call.location.some

-----------------------------------------------------------------------------
(* C23, C25: the tubes of an eight-pack *)

\* the tubes of the eight-pack in the order they are written; tube_z is
\* given as (back, front), so the back row is the one at negative z
Tubes == Locs(LastNode)
InBack(t) == Tubes[t].z < 0
InFront(t) == Tubes[t].z > 0

\* C23: addEightPack numbers the 8 tubes (in the order they are written,
\* 1..8) so that the rows alternate: by default the odd tubes are in the back
\* row and the even tubes in the front row, with upsidedown=True the odd
\* tubes are in the front row and the even tubes in the back row; in both
\* cases tube 1 has the smallest x of the 8 tubes and x increases with the
\* tube number.
C23_RowsAlternateXIncreases ==
    call.op = "addEightPack" =>
        /\ Len(Tubes) = 8
        /\ \A t \in 1..8 :
              IF (t % 2 = 1) = call.upsidedown THEN InFront(t) ELSE InBack(t)
        /\ \A t \in 1..7 : Tubes[t].x < Tubes[t + 1].x

\* what the code does: the odd tubes are in the back row whatever upsidedown
\* is; upsidedown only moves the back row half a SLIP to the right of the
\* front row, so that tube 2 has the smallest x and x goes up and down
EightPackAsWritten ==
    call.op = "addEightPack" =>
        /\ Len(Tubes) = 8
        /\ \A t \in 1..8 : IF t % 2 = 1 THEN InBack(t) ELSE InFront(t)
        /\ ~ call.upsidedown => \A t \in 1..7 : Tubes[t].x < Tubes[t + 1].x
        /\ call.upsidedown =>
              /\ \A i \in 1..4 : Tubes[2 * i].x < Tubes[2 * i - 1].x
              /\ \A i \in 1..3 : Tubes[2 * i - 1].x < Tubes[2 * i + 2].x

\* the distance along z between a tube of the front row and a tube of the
\* back row, as written with 5 decimals
RowDistances == {Tubes[f].z - Tubes[b].z : f \in {t \in 1..8 : InFront(t)},
                                           b \in {t \in 1..8 : InBack(t)}}

\* C25: in an eight-pack built by addEightPack the distance along z between
\* the back row and the front row of tubes equals SEPARATION, the constant
\* documented as the distance between front and back (to the 5 decimals
\* that are written).
C25_RowsSeparationApart ==
    call.op = "addEightPack" =>
        /\ RowDistances # {}
        /\ \A d \in RowDistances : Abs(d - SEPARATION) <= Res5

\* what the code does: the rows are at -SEPARATION and +SEPARATION, twice
\* the documented distance apart
RowsTwoSeparationsApart ==
    call.op = "addEightPack" =>
        /\ RowDistances # {}
        /\ \A d \in RowDistances : Abs(d - 2 * SEPARATION) <= Res5

-----------------------------------------------------------------------------
(* C24: the pixel positions of an inelastic bank *)

\* three arrays of tubes x pixels
HasShape(xyz, tubes, pixels) ==
    /\ Len(xyz) = 3
    /\ \A c \in 1..3 :
          /\ Len(xyz[c]) = tubes
          /\ \A t \in 1..tubes : Len(xyz[c][t]) = pixels

\* the y of the first pixel of every tube, in metres * 1e7
FirstYs(xyz) ==
    {xyz[2][t][1] \div INELASTIC_TUBE_NPIXEL : t \in DOMAIN xyz[2]}

\* C24: pixels_physical_xyz(bank_id) returns the pixel positions of a bank
\* for every documented bank_id 1, 2, 3 and 4 (1 and 3 the top banks, which
\* start at y = +INELASTIC_TUBE_Y0, 2 and 4 the bottom banks), each result
\* being three arrays of 56 tubes x 64 pixels.
C24_DocumentedBankIds ==
    (call.op = "pixels_physical_xyz" /\ call.bank_id \in 1..4) =>
        /\ call.raised = ""
        /\ HasShape(ret, 56, 64)
        /\ FirstYs(ret) = IF call.bank_id \in {1, 3}
                          THEN {INELASTIC_TUBE_Y0}
                          ELSE {-INELASTIC_TUBE_Y0 - INELASTIC_TUBE_LENGTH}

\* what the code does: the banks are counted from 0, as the script passes
\* them; 0 and 2 are the top banks, 1 and 3 the bottom banks, 4 is no key
BankIdsFromZero ==
    call.op = "pixels_physical_xyz" =>
        IF call.bank_id \in 0..3
        THEN /\ call.raised = ""
             /\ HasShape(ret, 56, 64)
             /\ FirstYs(ret) = IF call.bank_id \in {0, 2}
                               THEN {INELASTIC_TUBE_Y0}
                               ELSE {-INELASTIC_TUBE_Y0 - INELASTIC_TUBE_LENGTH}
        ELSE call.raised = "KeyError" /\ ret = <<>>

-----------------------------------------------------------------------------
(* C26: the pixels along a tube of IN5 *)

\* the node of a type, by its name
TypeNamed(name) ==
    root[CHOOSE k \in DOMAIN root : root[k].tag = "type" /\ root[k].name = name]

\* the pixel centres of the tube type, bottom to top, and the pixel height
PixelYs == [k \in DOMAIN TypeNamed("standard_tube").kids[1].kids |->
               TypeNamed("standard_tube").kids[1].kids[k].y]
PixelHeight == TypeNamed("standard_pixel").pixel_height

RECURSIVE Gcd(_, _)
Gcd(a, b) == IF b = 0 THEN a ELSE Gcd(b, a % b)

\* a fraction [num, den] with positive denominator, in lowest terms
Reduce(a) ==
    LET g == Gcd(Abs(a.num), a.den)
    IN  [num |-> a.num \div g, den |-> a.den \div g]

FracEq(a, c) == Reduce(a) = Reduce(c)
FracSub(a, c) ==
    IF a.den = c.den THEN Reduce([num |-> a.num - c.num, den |-> a.den])
    ELSE Reduce([num |-> a.num * c.den - c.num * a.den, den |-> a.den * c.den])
FracTimes(n, a) == [num |-> n * Reduce(a).num, den |-> Reduce(a).den]

\* C26: in the IN5 tube type the 256 pixel centres are symmetric about
\* y = 0 and consecutive centres are exactly one pixel height (tubePixelStep
\* = tubeHeight / 241) apart, so that the pixels tile the tube of height
\* totalTubeHeight = 256 * tubePixelStep without gap or overlap.
C26_PixelsTileTube ==
    At("in5", "write") =>
        /\ Len(PixelYs) = 256
        /\ FracEq(PixelHeight, [num |-> 295, den |-> 241])
        /\ \A k \in 1..256 :
              FracEq(PixelYs[k], FracTimes(-1, PixelYs[257 - k]))
        /\ \A k \in 1..255 :
              FracEq(FracSub(PixelYs[k + 1], PixelYs[k]), PixelHeight)

\* what the code does: linspace puts the first and the last centre at the
\* two ends of the tube, so the 256 centres are totalTubeHeight / 255 =
\* 256/255 of a pixel height apart
PixelCentresEndToEnd ==
    At("in5", "write") =>
        /\ Len(PixelYs) = 256
        /\ FracEq(PixelHeight, [num |-> 295, den |-> 241])
        /\ \A k \in 1..256 :
              FracEq(PixelYs[k], FracTimes(-1, PixelYs[257 - k]))
        /\ \A k \in 1..255 :
              FracEq(FracTimes(255, FracSub(PixelYs[k + 1], PixelYs[k])),
                     FracTimes(256, PixelHeight))
        /\ FracEq(FracTimes(2, PixelYs[256]), FracTimes(256, PixelHeight))

-----------------------------------------------------------------------------
(* C27: locations that follow log entries *)

LocationsOf(element) == {k \in DOMAIN element.kids : element.kids[k].tag = "location"}

\* the parameters of the location of an element, none without a location
ParametersOf(element) ==
    IF FindLocation(element) = 0 THEN <<>>
    ELSE element.kids[FindLocation(element)].kids

\* the parameters a call is to append
ParametersAsked(log_keys, coord_names, equations) ==
    [i \in 1..Len(log_keys) |->
        Parameter(coord_names[i], <<Logfile(log_keys[i], equations[i])>>)]

\* C27: after any sequence of insert_location_from_logs calls on an element
\* that starts with at most one location child, the element has exactly one
\* location child; each call appends to that location exactly len(log_key)
\* parameter children, the i-th named coord_name[i] and holding one logfile
\* child with id = log_key[i] and eq = equation[i], and leaves the
\* parameters added by earlier calls unchanged.
C27_OneLocationParametersAppended ==
    call.op = "insert_location_from_logs" =>
        /\ Cardinality(LocationsOf(root[1])) = 1
        /\ call.raised = ""
        /\ ParametersOf(root[1])
              = ParametersOf(call.element)
                \o ParametersAsked(AsList(call.log_key), AsList(call.coord_name),
                                   AsList(call.equation))

\* what does hold: the element has exactly one location child and earlier
\* parameters stay; the asked parameters are appended when coord_name and
\* equation have an entry for every log key, and otherwise the call raises
\* IndexError with fewer complete parameters appended than there are log keys
LogArgsWithEveryEntry ==
    call.op = "insert_location_from_logs" =>
        LET log_keys == AsList(call.log_key)
            enough == /\ Len(AsList(call.coord_name)) >= Len(log_keys)
                      /\ Len(AsList(call.equation)) >= Len(log_keys)
            before == ParametersOf(call.element)
        IN  /\ Cardinality(LocationsOf(root[1])) = 1
            /\ SubSeq(ParametersOf(root[1]), 1, Len(before)) = before
            /\ enough <=> call.raised = ""
            /\ enough =>
                  ParametersOf(root[1])
                      = before \o ParametersAsked(log_keys, AsList(call.coord_name),
                                                  AsList(call.equation))
            /\ ~ enough =>
                  Cardinality({k \in (Len(before) + 1)..Len(ParametersOf(root[1])) :
                                  ParametersOf(root[1])[k].kids # <<>>})
                      < Len(log_keys)

-----------------------------------------------------------------------------
(* C28: the diffraction banks of the BASIS script *)

\* the document of the current reflection has been built
BasisBuilt == pc.script = "basis" /\ pc.at \in {"write", "close"}

ElasticIds == IdlistNamed(root, "elastic").ids

\* the n-th (first, last, None) range of the idlist
ElasticRange(n) == SubSeq(ElasticIds, 3 * n - 2, 3 * n)

ElasticDetectors ==
    {k \in DOMAIN root : root[k].tag = "helper" /\ root[k].call = "addDetector"}

\* C28: in the BASIS script the elastic idlist holds one range of
\* ELASTIC_TUBE_NPIXELS = 128 ids for each diffraction bank, in the order of
\* the banks 5..13; the ranges are contiguous and pairwise disjoint and
\* cover exactly 16384 .. 16384 + 9*128 - 1, and the index k = i -
\* ELASTIC_BANK_START with which detector_x, detector_y and detector_z are
\* read is always within the bounds of the three lists.
C28_ElasticRangesAndIndex ==
    BasisBuilt =>
        /\ Len(ElasticIds) = 3 * 9
        /\ \A n \in 1..9 :
              /\ ElasticRange(n)[3] = NoneV
              /\ ElasticRange(n)[1].v = 16384 + 128 * (n - 1)
              /\ ElasticRange(n)[2].v - ElasticRange(n)[1].v + 1 = ELASTIC_TUBE_NPIXELS
        /\ \A n \in 1..8 : ElasticRange(n + 1)[1].v = ElasticRange(n)[2].v + 1
        /\ \A n \in 1..9, j \in 1..9 :
              n < j => ElasticRange(n)[2].v < ElasticRange(j)[1].v
        /\ ElasticRange(1)[1].v = 16384
        /\ ElasticRange(9)[2].v = 16384 + 9 * 128 - 1
        /\ Cardinality(ElasticDetectors) = 9
        /\ {root[d].bank : d \in ElasticDetectors} = 5..13
        /\ \A d \in ElasticDetectors :
              /\ root[d].k = root[d].bank - ELASTIC_BANK_START
              /\ root[d].k \in 0..(Len(detector_x) - 1)
              /\ root[d].k \in 0..(Len(detector_y) - 1)
              /\ root[d].k \in 0..(Len(detector_z) - 1)
              /\ root[d].x.raised = "" /\ root[d].y.raised = "" /\ root[d].z.raised = ""

\* the document of the 311 reflection is built: the last bank, 13, takes
\* the ids 17408 .. 17535 and the ninth entry of the three lists
C28_Witness ==
    /\ BasisBuilt
    /\ env.k = 4
    /\ ElasticRange(9) = <<IntV(17408), IntV(17535), NoneV>>
    /\ \E d \in ElasticDetectors :
          /\ root[d].bank = 13 /\ root[d].k = 8
          /\ root[d].x.v = 5687435 /\ root[d].z.v = 23769990

=============================================================================
